---- MODULE Spec2Model ----
(***************************************************************************)
(* A model of the procedure layer of the LIR: polymorphic procedures and   *)
(* their monomorph cache (lir/expr/procedure/poly.rs), the process-wide    *)
(* lambda counter and the code emitted for a procedure                     *)
(* (lir/expr/procedure.rs); of the code emitted for get, put, tag and     *)
(* data (lir/expr/ops/io.rs, lir/expr/ops/tagged_union.rs), run on a       *)
(* stack machine; of Error::annotate (lir/error.rs); and of the FFI        *)
(* channel and ffi_call of the devices (vm/interpreter/mod.rs,             *)
(* side_effects/ffi.rs).                                                   *)
(***************************************************************************)
EXTENDS Integers, Sequences, FiniteSets, TLC

VARIABLES
    proc,          \* the PolyProcedure `self` (name, ty_params, args, ret, body)
    monomorphs,    \* self.monomorphs: mangled name -> Procedure
    rw_readers,    \* threads holding a read guard of self.monomorphs
    rw_writer,     \* the thread holding the write guard, or NoThread
    poisoned,      \* the RwLock is poisoned (a writer panicked)
    lambda_count,  \* LAMBDA_COUNT
    pc,            \* each thread's position in monomorphize
    call,          \* each thread's locals of its current monomorphize call
    result,        \* each thread's last returned Result<Procedure, Error>
    returned,      \* history: the successful returns so far
    ncalls,        \* history: the number of monomorphize calls started
    has_type_checked, \* self.has_type_checked
    tc_pc,         \* each thread's position in PolyProcedure::type_check
    tc_result,     \* each thread's last result of type_check
    check_runs,    \* history: how often the checking work after the flag ran
    tc_calls,      \* history: the number of type_check calls started
    lambda_lock,   \* the thread holding the LAMBDA_COUNT mutex, or NoThread
    lam_pc,        \* each thread's position in Procedure::new
    lam_ticket,    \* history: the rank of each thread's lock acquisition
    lam_locks,     \* history: the number of lock acquisitions so far
    made,          \* history: the procedures constructed, with their rank
    sink,          \* the AssemblyProgram: the ops appended so far
    comp_last,     \* history: the last compile_expr call and its outcome
    ncompiles,     \* history: the number of compile_expr calls
    vm_prog,       \* the emitted CoreOps the machine is executing
    vm_ip,         \* the index in vm_prog of the next op to execute
    vm_tape,       \* the machine's tape: the cells of the stack
    vm_reg,        \* the machine's registers A, B, C, SP, FP
    vm_out,        \* the Device's output: the (value, mode) pairs put so far
    vm_case,       \* history: the expression compiled and the stack it met
    err,           \* the lir::Error value being annotated
    err_anns,      \* history: the annotations passed to annotate, in order
    err_orig,      \* history: the error before the first call of annotate
    dev,           \* the device: kind, ffi, ffi_channel, input, output
    dev_tape,      \* the tape the interpreter passes to ffi_call
    dev_last,      \* history: the last call on the device, its result, the state before
    dev_poked,     \* history: the values poke was given, in order
    dev_peeked,    \* history: the values peek returned, in order
    dev_invoked,   \* history: the foreign functions ffi_call invoked, in order
    poly,          \* a PolyProcedure with its monomorphs and has_type_checked
    poly_saved,    \* the serialized form of a PolyProcedure
    poly_loaded,   \* the PolyProcedure deserialized from it
    poly_last,     \* history: the last call on poly, its arguments, poly before
    poly_of        \* history: the PolyProcedure as it was when serialized

monoVars == <<proc, monomorphs, rw_readers, rw_writer, poisoned, lambda_count,
              pc, call, result, returned, ncalls>>
tcVars == <<has_type_checked, tc_pc, tc_result, check_runs, tc_calls>>
lamVars == <<lambda_lock, lam_pc, lam_ticket, lam_locks, made>>
compVars == <<sink, comp_last, ncompiles>>
vmVars == <<vm_prog, vm_ip, vm_tape, vm_reg, vm_out, vm_case>>
errVars == <<err, err_anns, err_orig>>
devVars == <<dev, dev_tape, dev_last, dev_poked, dev_peeked, dev_invoked>>
polyVars == <<poly, poly_saved, poly_loaded, poly_last, poly_of>>
vars == <<monoVars, tcVars, lamVars, compVars, vmVars, errVars, devVars, polyVars>>

----------------------------------------------------------------------------
(* Bounds *)

MaxCalls == 3
MaxTypeChecks == 4
MaxNew == 4
MaxCompiles == 2

Threads == {"t1", "t2"}
NoThread == "none"

----------------------------------------------------------------------------
(* Types and the environment *)

\* Type::Int, Type::Char
ConcreteTypes == {"Int", "Char"}
\* Type::Symbol(name): "A" is defined in the environment, "U" is not,
\* "T" is the type parameter of the procedures below.
SymbolTypes == {"A", "U", "T"}
Types == ConcreteTypes \cup SymbolTypes

NoType == "None"

\* env.get_type: the environment of the calls defines the alias A = Int.
EnvTypes == ("A" :> "Int")

SIMPLIFY_RECURSION_LIMIT == 3

Ok(ty) == [ok |-> TRUE, ty |-> ty, err |-> "none"]
Err(e) == [ok |-> FALSE, ty |-> NoType, err |-> e]

RECURSIVE SimplifyFuel(_, _)
SimplifyFuel(ty, fuel) ==
    IF ty \in ConcreteTypes THEN Ok(ty)
    ELSE IF fuel = 0 THEN Err("CouldntSimplify")
    ELSE IF ty \in DOMAIN EnvTypes THEN SimplifyFuel(EnvTypes[ty], fuel - 1)
    ELSE SimplifyFuel(ty, fuel - 1)

\* Type::simplify_until_concrete(env, true)
SimplifyUntilConcrete(ty) == SimplifyFuel(ty, SIMPLIFY_RECURSION_LIMIT)

\* The first error of a sequence of results, as collect::<Result<Vec<_>, _>>
RECURSIVE FirstErr(_)
FirstErr(rs) ==
    IF rs = <<>> THEN "none"
    ELSE IF ~Head(rs).ok THEN Head(rs).err
    ELSE FirstErr(Tail(rs))

\* ty_args.into_iter().map(simplify_until_concrete).collect()
SimplifyAll(tys) ==
    LET rs == [i \in 1..Len(tys) |-> SimplifyUntilConcrete(tys[i])]
    IN  [err |-> FirstErr(rs), tys |-> [i \in 1..Len(tys) |-> rs[i].ty]]

\* Type::equals modulo simplification
TypeEquals(a, b) ==
    /\ SimplifyUntilConcrete(a).ok
    /\ SimplifyUntilConcrete(b).ok
    /\ SimplifyUntilConcrete(a).ty = SimplifyUntilConcrete(b).ty

----------------------------------------------------------------------------
(* Polymorphic procedures *)

TyParam(n, b) == [name |-> n, bound |-> b]
Arg(n, t) == [name |-> n, mut |-> "Immutable", ty |-> t]

\* Body shapes: "Var" evaluates to the first argument, "SelfCall" applies the
\* procedure itself at the type arguments targs, "Undef" refers to a symbol no
\* scope defines.
Body(k, targs) == [kind |-> k, targs |-> targs]

\* PolyProcedure::new
PolyProcedureNew(name, ty_params, args, ret, body) ==
    [name |-> name, ty_params |-> ty_params, args |-> args, ret |-> ret,
     body |-> body]

PolyProcs ==
    { PolyProcedureNew("id", <<TyParam("T", NoType)>>, <<Arg("x", "T")>>, "T",
                       Body("Var", <<>>)),
      PolyProcedureNew("only_int", <<TyParam("T", "Int")>>, <<Arg("x", "T")>>,
                       "T", Body("Var", <<>>)),
      PolyProcedureNew("zero", <<TyParam("T", NoType)>>, <<Arg("x", "Int")>>,
                       "Int", Body("Var", <<>>)),
      PolyProcedureNew("rec", <<TyParam("T", NoType)>>, <<Arg("x", "T")>>, "T",
                       Body("SelfCall", <<"T">>)),
      PolyProcedureNew("bad", <<TyParam("T", NoType)>>, <<Arg("x", "T")>>, "T",
                       Body("Undef", <<>>)),
      PolyProcedureNew("mis", <<TyParam("T", NoType)>>, <<Arg("x", "T")>>,
                       "Int", Body("Var", <<>>)) }

\* The type-argument lists the callers pass.
TyArgLists ==
    { <<"Int">>, <<"Char">>, <<"A">>, <<"U">>, <<"Int", "Char">>,
      <<"U", "Int">>, <<>> }

\* PolyProcedure::type_param_names
TypeParamNames(p) == [i \in 1..Len(p.ty_params) |-> p.ty_params[i].name]

Min(a, b) == IF a < b THEN a ELSE b

\* Substituting the parameters names by the types tys (zipped: the shorter
\* list decides) in the type ty.
SubstType(ty, names, tys) ==
    LET n == Min(Len(names), Len(tys))
        hits == {i \in 1..n : names[i] = ty}
    IN  IF hits = {} THEN ty ELSE tys[CHOOSE i \in hits : \A j \in hits : i <= j]

\* Simplifying Type::Apply(Type::Poly(ty_params, ty), simplified_ty_args)
TypeApplySimplify(ty_params, ty, ty_args) ==
    IF Len(ty_args) # Len(ty_params) THEN Err("InvalidTemplateArgs")
    ELSE SimplifyUntilConcrete(
            SubstType(ty, [i \in 1..Len(ty_params) |-> ty_params[i].name], ty_args))

\* The closure bind_type_args of monomorphize
BindTypeArgs(p, ty, simplified_ty_args) ==
    TypeApplySimplify(p.ty_params, ty, simplified_ty_args)

----------------------------------------------------------------------------
(* The mangled name: format!("__MONOMORPHIZED_({ty_args:?}){}{args:?}{ret:?}") *)
(* as the sequence of the pieces of text it writes.                          *)

RECURSIVE Concat(_)
Concat(ss) == IF ss = <<>> THEN <<>> ELSE Head(ss) \o Concat(Tail(ss))

\* {:?} of a Vec: "[", the elements separated by ", ", "]"
DebugVec(items) ==
    <<"[">>
    \o Concat([i \in 1..Len(items) |->
                 IF i < Len(items) THEN items[i] \o <<", ">> ELSE items[i]])
    \o <<"]">>

\* {:?} of a Type
DebugType(ty) == IF ty \in SymbolTypes THEN <<"Symbol(", ty, ")">> ELSE <<ty>>

\* {:?} of an argument (name, mutability, type)
DebugArg(a) == <<"(", a.name, ", ", a.mut, ", ">> \o DebugType(a.ty) \o <<")">>

MangledNameCounted(name, ty_args, args, ret) ==
    <<"__MONOMORPHIZED_(">>
    \o DebugVec([i \in 1..Len(ty_args) |-> DebugType(ty_args[i])])
    \o <<")", name>>
    \o DebugVec([i \in 1..Len(args) |-> DebugArg(args[i])])
    \o DebugType(ret) \o <<"#", ToString(lambda_count)>>

MangledNameNoTyArgs(name, ty_args, args, ret) ==
    <<"__MONOMORPHIZED_(">> \o <<")", name>>
    \o DebugVec([i \in 1..Len(args) |-> DebugArg(args[i])])
    \o DebugType(ret)

MangledName(name, ty_args, args, ret) ==
    <<"__MONOMORPHIZED_(">>
    \o DebugVec([i \in 1..Len(ty_args) |-> DebugType(ty_args[i])])
    \o <<")", name>>
    \o DebugVec([i \in 1..Len(args) |-> DebugArg(args[i])])
    \o DebugType(ret)

----------------------------------------------------------------------------
(* Procedures *)

NoProc == [name |-> <<>>, mangled_name |-> <<>>, args |-> <<>>, ret |-> NoType,
           body |-> Body("none", <<>>)]

\* Procedure::new: the label is "__LAMBDA_{lambda_count}" for the count n
\* the constructor has just incremented LAMBDA_COUNT to.
ProcedureNew(name, args, ret, body, n) ==
    [name |-> name, mangled_name |-> <<"__LAMBDA_", n>>, args |-> args,
     ret |-> ret, body |-> body]

\* The body of the monomorph: body.substitute_types(type_param_names,
\* simplified_ty_args), then wrapped by body.with(..) (which changes no type
\* argument of the body).
MonoBody(p, simplified_ty_args) ==
    Body(p.body.kind,
         [i \in 1..Len(p.body.targs) |->
            SubstType(p.body.targs[i], TypeParamNames(p), simplified_ty_args)])

\* What Procedure::type_check does with a body: "ok", "err", or "mono" when
\* getting the type of the body monomorphizes the polymorphic procedure again.
BodyTypeCheck(body) ==
    CASE body.kind = "Var" -> "ok"
      [] body.kind = "Undef" -> "err"
      [] body.kind = "SelfCall" -> "mono"
      [] OTHER -> "ok"

----------------------------------------------------------------------------
(* The monomorph cache and its reader-writer lock *)

\* monomorphs.contains_key(&mangled_name)
CacheContains(m, key) == key \in DOMAIN m

CacheInsertOverwrite(m, key, p) ==
    [k \in DOMAIN m \cup {key} |-> IF k = key THEN p ELSE m[k]]

\* monomorphs.entry(mangled_name).or_insert_with(|| monomorph)
CacheEntryOrInsert(m, key, p) ==
    IF key \in DOMAIN m THEN m ELSE m @@ (key :> p)

\* RwLock::read succeeds when no writer holds the lock
CanRead(th) == rw_writer = NoThread

\* RwLock::write succeeds when nobody holds the lock
CanWrite(th) == rw_writer = NoThread /\ rw_readers = {}

----------------------------------------------------------------------------
(* PolyProcedure::monomorphize, one action per step between lock operations *)

NoCall == [ty_args |-> <<>>, simplified |-> <<>>, args |-> <<>>, ret |-> NoType,
           key |-> <<>>, monomorph |-> NoProc]
NoResult == [status |-> "none", proc |-> NoProc, err |-> "none"]
OkResult(p) == [status |-> "ok", proc |-> p, err |-> "none"]
ErrResult(e) == [status |-> "err", proc |-> NoProc, err |-> e]

NoCompile == [status |-> "none", before |-> <<>>, label |-> <<>>, args |-> <<>>,
              ret |-> NoType, body |-> <<>>]

\* The parts of the state a specification of another operation leaves alone
IdleMono ==
    /\ monomorphs = <<>>
    /\ rw_readers = {}
    /\ rw_writer = NoThread
    /\ poisoned = FALSE
    /\ pc = [th \in Threads |-> "idle"]
    /\ call = [th \in Threads |-> NoCall]
    /\ result = [th \in Threads |-> NoResult]
    /\ returned = {}
    /\ ncalls = 0

IdleTypeCheck ==
    /\ has_type_checked = FALSE
    /\ tc_pc = [th \in Threads |-> "idle"]
    /\ tc_result = [th \in Threads |-> "none"]
    /\ check_runs = 0
    /\ tc_calls = 0

IdleLambda ==
    /\ lambda_lock = NoThread
    /\ lam_pc = [th \in Threads |-> "idle"]
    /\ lam_ticket = [th \in Threads |-> 0]
    /\ lam_locks = 0
    /\ made = {}

IdleCompile ==
    /\ sink = <<>>
    /\ comp_last = NoCompile
    /\ ncompiles = 0

\* The registers of the stack machine the CoreOps run on
Registers == {"A", "B", "C", "SP", "FP"}

\* Type::None
TNone == [kind |-> "None"]

NoCase == [kind |-> "none", status |-> "none", ty |-> TNone, mode |-> "none",
           sp0 |-> 0, tape0 |-> <<>>, args_size |-> 0, ret_size |-> 0]

IdleVm ==
    /\ vm_prog = <<>>
    /\ vm_ip = 1
    /\ vm_tape = <<>>
    /\ vm_reg = [r \in Registers |-> 0]
    /\ vm_out = <<>>
    /\ vm_case = NoCase

NoError == [kind |-> "none"]

IdleErr ==
    /\ err = NoError
    /\ err_anns = <<>>
    /\ err_orig = NoError

\* No device made
NoDevice == [kind |-> "none"]
NoDeviceCall == [op |-> "none"]
IdleDevice ==
    /\ dev = NoDevice
    /\ dev_tape = <<>>
    /\ dev_last = NoDeviceCall
    /\ dev_poked = <<>>
    /\ dev_peeked = <<>>
    /\ dev_invoked = <<>>

\* No PolyProcedure serialized or substituted
NoPoly == [name |-> "none"]
NoPolyCall == [op |-> "none"]
IdlePoly ==
    /\ poly = NoPoly
    /\ poly_saved = <<>>
    /\ poly_loaded = NoPoly
    /\ poly_last = NoPolyCall
    /\ poly_of = NoPoly

InitMono ==
    /\ proc \in PolyProcs
    /\ monomorphs = <<>>
    /\ rw_readers = {}
    /\ rw_writer = NoThread
    /\ poisoned = FALSE
    /\ lambda_count = 0
    /\ pc = [th \in Threads |-> "idle"]
    /\ call = [th \in Threads |-> NoCall]
    /\ result = [th \in Threads |-> NoResult]
    /\ returned = {}
    /\ ncalls = 0
    /\ IdleTypeCheck
    /\ IdleLambda
    /\ IdleCompile
    /\ IdleVm
    /\ IdleErr
    /\ IdleDevice
    /\ IdlePoly

\* Lines 116-175: simplify the type arguments, bind them in the argument and
\* return types, build the mangled name. Every `?` returns the error.
Call(th, ty_args) ==
    /\ pc[th] \in {"idle", "done"}
    /\ ncalls < MaxCalls
    /\ ncalls' = ncalls + 1
    /\ LET s == SimplifyAll(ty_args)
           as == [i \in 1..Len(proc.args) |->
                    BindTypeArgs(proc, proc.args[i].ty, s.tys)]
           r == BindTypeArgs(proc, proc.ret, s.tys)
           args == [i \in 1..Len(proc.args) |->
                      [proc.args[i] EXCEPT !.ty = as[i].ty]]
           e == IF s.err # "none" THEN s.err
                ELSE IF FirstErr(as) # "none" THEN FirstErr(as)
                ELSE IF ~r.ok THEN r.err ELSE "none"
       IN  IF e # "none"
           THEN /\ pc' = [pc EXCEPT ![th] = "done"]
                /\ call' = [call EXCEPT ![th] = [NoCall EXCEPT !.ty_args = ty_args]]
                /\ result' = [result EXCEPT ![th] = ErrResult(e)]
           ELSE /\ pc' = [pc EXCEPT ![th] = "read"]
                /\ call' = [call EXCEPT ![th] =
                      [ty_args |-> ty_args, simplified |-> s.tys, args |-> args,
                       ret |-> r.ty,
                       key |-> MangledName(proc.name, ty_args, args, r.ty),
                       monomorph |-> NoProc]]
                /\ result' = [result EXCEPT ![th] = NoResult]
    /\ UNCHANGED <<proc, monomorphs, rw_readers, rw_writer, poisoned,
                   lambda_count, returned>>
    /\ UNCHANGED <<tcVars, lamVars, compVars, vmVars, errVars, devVars, polyVars>>

\* Line 178: self.monomorphs.read().unwrap()
AcquireRead(th) ==
    /\ pc[th] = "read"
    /\ IF poisoned
       THEN /\ pc' = [pc EXCEPT ![th] = "panicked"]
            /\ UNCHANGED rw_readers
       ELSE /\ CanRead(th)
            /\ rw_readers' = rw_readers \cup {th}
            /\ pc' = [pc EXCEPT ![th] = "check"]
    /\ UNCHANGED <<proc, monomorphs, rw_writer, poisoned, lambda_count, call,
                   result, returned, ncalls>>
    /\ UNCHANGED <<tcVars, lamVars, compVars, vmVars, errVars, devVars, polyVars>>

\* Lines 179-186: return the memoized procedure, or drop the read guard
CheckCache(th) ==
    /\ pc[th] = "check"
    /\ rw_readers' = rw_readers \ {th}
    /\ IF CacheContains(monomorphs, call[th].key)
       THEN /\ pc' = [pc EXCEPT ![th] = "done"]
            /\ result' = [result EXCEPT ![th] = OkResult(monomorphs[call[th].key])]
            /\ returned' = returned \cup
                  {[ty_args |-> call[th].ty_args, key |-> call[th].key,
                    proc |-> monomorphs[call[th].key]]}
       ELSE /\ pc' = [pc EXCEPT ![th] = "write"]
            /\ UNCHANGED <<result, returned>>
    /\ UNCHANGED <<proc, monomorphs, rw_writer, poisoned, lambda_count, call,
                   ncalls>>
    /\ UNCHANGED <<tcVars, lamVars, compVars, vmVars, errVars, devVars, polyVars>>

\* Line 187: self.monomorphs.write().unwrap()
AcquireWrite(th) ==
    /\ pc[th] = "write"
    /\ IF poisoned
       THEN /\ pc' = [pc EXCEPT ![th] = "panicked"]
            /\ UNCHANGED rw_writer
       ELSE /\ CanWrite(th)
            /\ rw_writer' = th
            /\ pc' = [pc EXCEPT ![th] = "build"]
    /\ UNCHANGED <<proc, monomorphs, rw_readers, poisoned, lambda_count, call,
                   result, returned, ncalls>>
    /\ UNCHANGED <<tcVars, lamVars, compVars, vmVars, errVars, devVars, polyVars>>

\* Lines 190-204: substitute the type arguments in the body and construct
\* the monomorph with Procedure::new
Build(th) ==
    /\ pc[th] = "build"
    /\ lambda_count' = lambda_count + 1
    /\ call' = [call EXCEPT ![th].monomorph =
          ProcedureNew(call[th].key, call[th].args, call[th].ret,
                       MonoBody(proc, call[th].simplified), lambda_count')]
    /\ pc' = [pc EXCEPT ![th] = "typecheck"]
    /\ UNCHANGED <<proc, monomorphs, rw_readers, rw_writer, poisoned, result,
                   returned, ncalls>>
    /\ UNCHANGED <<tcVars, lamVars, compVars, vmVars, errVars, devVars, polyVars>>

\* A variant of the type check whose error return keeps the write guard
TypeCheckMonomorphKeepGuard(th) ==
    /\ pc[th] = "typecheck"
    /\ LET tc == BodyTypeCheck(call[th].monomorph.body)
       IN  CASE tc = "ok" ->
                  /\ pc' = [pc EXCEPT ![th] = "insert"]
                  /\ UNCHANGED <<rw_writer, result>>
             [] tc = "err" ->
                  /\ pc' = [pc EXCEPT ![th] = "done"]
                  /\ UNCHANGED rw_writer
                  /\ result' = [result EXCEPT ![th] = ErrResult("SymbolNotDefined")]
             [] OTHER ->
                  /\ pc' = [pc EXCEPT ![th] = "nested"]
                  /\ UNCHANGED <<rw_writer, result>>
    /\ UNCHANGED <<proc, monomorphs, rw_readers, poisoned, lambda_count, call,
                   returned, ncalls>>
    /\ UNCHANGED <<tcVars, lamVars, compVars, vmVars, errVars, devVars, polyVars>>

\* Line 205: monomorph.type_check(env)?, with the write guard held
TypeCheckMonomorph(th) ==
    /\ pc[th] = "typecheck"
    /\ LET tc == BodyTypeCheck(call[th].monomorph.body)
       IN  CASE tc = "ok" ->
                  /\ pc' = [pc EXCEPT ![th] = "insert"]
                  /\ UNCHANGED <<rw_writer, result>>
             [] tc = "err" ->
                  /\ pc' = [pc EXCEPT ![th] = "done"]
                  /\ rw_writer' = NoThread
                  /\ result' = [result EXCEPT ![th] = ErrResult("SymbolNotDefined")]
             [] OTHER ->
                  /\ pc' = [pc EXCEPT ![th] = "nested"]
                  /\ UNCHANGED <<rw_writer, result>>
    /\ UNCHANGED <<proc, monomorphs, rw_readers, poisoned, lambda_count, call,
                   returned, ncalls>>
    /\ UNCHANGED <<tcVars, lamVars, compVars, vmVars, errVars, devVars, polyVars>>

\* Line 178 of the monomorphize call made by the type check of the monomorph:
\* self.monomorphs.read() by the thread that holds the write guard. RwLock::read
\* then blocks forever or panics; the panic drops the write guard, which
\* poisons the lock.
NestedRead(th) ==
    /\ pc[th] = "nested"
    /\ ~CanRead(th)
    /\ \E outcome \in {"blocked", "panicked"} :
          /\ pc' = [pc EXCEPT ![th] = outcome]
          /\ rw_writer' = IF outcome = "panicked" THEN NoThread ELSE rw_writer
          /\ poisoned' = (outcome = "panicked")
    /\ UNCHANGED <<proc, monomorphs, rw_readers, lambda_count, call, result,
                   returned, ncalls>>
    /\ UNCHANGED <<tcVars, lamVars, compVars, vmVars, errVars, devVars, polyVars>>

\* Lines 208-215: insert unless present, drop the write guard, return the
\* stored procedure
Insert(th) ==
    /\ pc[th] = "insert"
    /\ monomorphs' = CacheEntryOrInsert(monomorphs, call[th].key, call[th].monomorph)
    /\ rw_writer' = NoThread
    /\ pc' = [pc EXCEPT ![th] = "done"]
    /\ result' = [result EXCEPT ![th] = OkResult(monomorphs'[call[th].key])]
    /\ returned' = returned \cup
          {[ty_args |-> call[th].ty_args, key |-> call[th].key,
            proc |-> monomorphs'[call[th].key]]}
    /\ UNCHANGED <<proc, rw_readers, poisoned, lambda_count, call, ncalls>>
    /\ UNCHANGED <<tcVars, lamVars, compVars, vmVars, errVars, devVars, polyVars>>

NextMono ==
    \E th \in Threads :
        \/ \E ty_args \in TyArgLists : Call(th, ty_args)
        \/ AcquireRead(th)
        \/ CheckCache(th)
        \/ AcquireWrite(th)
        \/ Build(th)
        \/ TypeCheckMonomorph(th)
        \/ NestedRead(th)
        \/ Insert(th)

SpecMono == InitMono /\ [][NextMono]_vars

----------------------------------------------------------------------------
(* Properties of monomorphize *)

Returning(th) == pc[th] # "done" /\ pc'[th] = "done" /\ result'[th].status = "ok"

\* The call of th returned the memoized procedure without building one
CacheHit(th) ==
    /\ pc[th] = "done"
    /\ result[th].status = "ok"
    /\ call[th].monomorph = NoProc

\* C1: a successful call with type arguments that an earlier successful call
\* had returns the procedure the earlier call stored, with the same mangled
\* name, and adds no entry to the cache.
C1_RepeatedCallReturnsCached ==
    [][\A th \in Threads :
         (Returning(th) /\ \E r \in returned : r.ty_args = call[th].ty_args)
         => /\ DOMAIN monomorphs' = DOMAIN monomorphs
            /\ \A r \in returned :
                  r.ty_args = call[th].ty_args
                  => /\ result'[th].proc = r.proc
                     /\ result'[th].proc.name = r.proc.name
                     /\ r.proc = monomorphs'[r.key]]_vars

C1_Witness == \E th \in Threads : CacheHit(th)

\* C2: whatever the interleaving, every procedure a caller was returned is
\* the entry the cache holds for its mangled name (so the entry was never
\* replaced and all callers of one name got the same procedure), and every
\* entry is stored under its own name.
C2_OneEntryPerName ==
    /\ \A r \in returned :
          /\ r.key \in DOMAIN monomorphs
          /\ monomorphs[r.key] = r.proc
    /\ \A r1, r2 \in returned : r1.key = r2.key => r1.proc = r2.proc
    /\ \A k \in DOMAIN monomorphs : monomorphs[k].name = k

\* Two threads missed the cache for the same name, both built a monomorph and
\* both returned.
C2_Witness ==
    \E t1, t2 \in Threads :
        /\ t1 # t2
        /\ pc[t1] = "done" /\ pc[t2] = "done"
        /\ result[t1].status = "ok" /\ result[t2].status = "ok"
        /\ call[t1].key = call[t2].key
        /\ call[t1].monomorph # NoProc /\ call[t2].monomorph # NoProc
        /\ call[t1].monomorph # call[t2].monomorph

\* C3: no call to monomorphize is stuck on the lock of the cache or ends
\* otherwise than by returning: no thread waits for a read guard while it
\* holds the write guard itself, and none panics.
C3_EveryCallReturns ==
    \A th \in Threads : pc[th] \notin {"blocked", "panicked"}

\* C5: a call whose number of type arguments differs from the number of type
\* parameters returns InvalidTemplateArgs and no procedure.
C5_ArityMismatchIsInvalidTemplateArgs ==
    \A th \in Threads :
        (pc[th] = "done" /\ Len(call[th].ty_args) # Len(proc.ty_params))
        => /\ result[th].status = "err"
           /\ result[th].err = "InvalidTemplateArgs"
           /\ result[th].proc = NoProc

\* The type argument at position i does not equal the bound declared there
ViolatesBound(p, ty_args) ==
    \E i \in 1..Min(Len(p.ty_params), Len(ty_args)) :
        /\ p.ty_params[i].bound # NoType
        /\ SimplifyUntilConcrete(ty_args[i]).ok
        /\ ~TypeEquals(p.ty_params[i].bound, ty_args[i])

\* C6: a call with a type argument that does not equal the bound of its
\* parameter returns MismatchedTypes and no monomorph.
C6_BoundViolationIsMismatchedTypes ==
    \A th \in Threads :
        (pc[th] = "done" /\ ViolatesBound(proc, call[th].ty_args))
        => /\ result[th].status = "err"
           /\ result[th].err = "MismatchedTypes"

\* C7: two successful calls whose type arguments differ after simplification
\* return procedures with distinct mangled names, held as two entries.
C7_DistinctTypeArgsDistinctMonomorphs ==
    \A r1, r2 \in returned :
        SimplifyAll(r1.ty_args).tys # SimplifyAll(r2.ty_args).tys
        => /\ r1.key # r2.key
           /\ r1.proc.name # r2.proc.name
           /\ r1.proc # r2.proc
           /\ {r1.key, r2.key} \subseteq DOMAIN monomorphs
           /\ monomorphs[r1.key] = r1.proc
           /\ monomorphs[r2.key] = r2.proc

C7_Witness ==
    \E r1, r2 \in returned : r1.ty_args = <<"Int">> /\ r2.ty_args = <<"Char">>

\* C8: two successful calls whose type arguments are equal after
\* simplification use one cache key and return one procedure.
C8_KeyedBySimplifiedTypeArgs ==
    \A r1, r2 \in returned :
        SimplifyAll(r1.ty_args).tys = SimplifyAll(r2.ty_args).tys
        => /\ r1.key = r2.key
           /\ r1.proc = r2.proc

----------------------------------------------------------------------------
(* impl TypeCheck for PolyProcedure *)

\* The type of the body in the scope that defines the type parameters and the
\* arguments (line 283): a "Var" body has the type of the first argument.
PolyBodyType(p) ==
    CASE p.body.kind = "Var" -> Ok(p.args[1].ty)
      [] OTHER -> Err("SymbolNotDefined")

\* body_type.can_decay_to(&self.ret, &new_env) (line 286), in the scope where
\* a type parameter names its bound, or the nominal Unit(param, None).
PolyCanDecayTo(p, body_ty, ret) ==
    LET Resolve(t) ==
          IF \E i \in 1..Len(p.ty_params) :
                p.ty_params[i].name = t /\ p.ty_params[i].bound # NoType
          THEN (CHOOSE b \in Types :
                  \E i \in 1..Len(p.ty_params) :
                     p.ty_params[i].name = t /\ p.ty_params[i].bound = b)
          ELSE t
    IN  Resolve(body_ty) = Resolve(ret)

\* Lines 255-301: the checking work after the flag test
PolyCheckBody(p) ==
    LET bt == PolyBodyType(p)
    IN  IF ~bt.ok THEN bt.err
        ELSE IF ~PolyCanDecayTo(p, bt.ty, p.ret) THEN "MismatchedTypes"
        ELSE "Ok"

InitTypeCheck ==
    /\ proc \in {p \in PolyProcs : p.body.kind # "SelfCall"}
    /\ lambda_count = 0
    /\ IdleMono
    /\ IdleTypeCheck
    /\ IdleLambda
    /\ IdleCompile
    /\ IdleVm
    /\ IdleErr
    /\ IdleDevice
    /\ IdlePoly

\* Lines 249-251: *self.has_type_checked.read().unwrap()
TcReadFlag(th) ==
    /\ tc_pc[th] \in {"idle", "done"}
    /\ tc_calls < MaxTypeChecks
    /\ tc_calls' = tc_calls + 1
    /\ IF has_type_checked
       THEN /\ tc_pc' = [tc_pc EXCEPT ![th] = "done"]
            /\ tc_result' = [tc_result EXCEPT ![th] = "Ok"]
       ELSE /\ tc_pc' = [tc_pc EXCEPT ![th] = "set"]
            /\ tc_result' = [tc_result EXCEPT ![th] = "none"]
    /\ UNCHANGED <<has_type_checked, check_runs>>
    /\ UNCHANGED <<monoVars, lamVars, compVars, vmVars, errVars, devVars, polyVars>>

\* Line 253: *self.has_type_checked.write().unwrap() = true
TcSetFlag(th) ==
    /\ tc_pc[th] = "set"
    /\ has_type_checked' = TRUE
    /\ tc_pc' = [tc_pc EXCEPT ![th] = "check"]
    /\ UNCHANGED <<tc_result, check_runs, tc_calls>>
    /\ UNCHANGED <<monoVars, lamVars, compVars, vmVars, errVars, devVars, polyVars>>

\* Lines 254-301: define the parameters and arguments, check the body
TcCheckBody(th) ==
    /\ tc_pc[th] = "check"
    /\ check_runs' = check_runs + 1
    /\ tc_result' = [tc_result EXCEPT ![th] = PolyCheckBody(proc)]
    /\ tc_pc' = [tc_pc EXCEPT ![th] = "done"]
    /\ UNCHANGED <<has_type_checked, tc_calls>>
    /\ UNCHANGED <<monoVars, lamVars, compVars, vmVars, errVars, devVars, polyVars>>

NextTypeCheck ==
    \E th \in Threads :
        \/ TcReadFlag(th)
        \/ TcSetFlag(th)
        \/ TcCheckBody(th)

SpecTypeCheck == InitTypeCheck /\ [][NextTypeCheck]_vars

\* C4: the checking work after the flag test runs at most once on one
\* PolyProcedure, and the flag, once true, stays true.
C4_CheckedAtMostOnce ==
    /\ check_runs <= 1
    /\ (check_runs > 0 => has_type_checked)

----------------------------------------------------------------------------
(* Procedure::new and the process-wide LAMBDA_COUNT *)

LambdaCanLockAlways(th) == TRUE

\* Mutex::lock succeeds when no thread holds the mutex
LambdaCanLock(th) == lambda_lock = NoThread

InitLambda ==
    /\ proc \in {p \in PolyProcs : p.name = "id"}
    /\ lambda_count = 0
    /\ IdleMono
    /\ IdleTypeCheck
    /\ IdleLambda
    /\ IdleCompile
    /\ IdleVm
    /\ IdleErr
    /\ IdleDevice
    /\ IdlePoly

\* Line 24: LAMBDA_COUNT.lock().unwrap()
NewLock(th) ==
    /\ lam_pc[th] = "idle"
    /\ lam_locks < MaxNew
    /\ LambdaCanLock(th)
    /\ lambda_lock' = th
    /\ lam_locks' = lam_locks + 1
    /\ lam_ticket' = [lam_ticket EXCEPT ![th] = lam_locks']
    /\ lam_pc' = [lam_pc EXCEPT ![th] = "locked"]
    /\ UNCHANGED <<made, lambda_count>>
    /\ UNCHANGED <<proc, monomorphs, rw_readers, rw_writer, poisoned, pc, call,
                   result, returned, ncalls>>
    /\ UNCHANGED <<tcVars, compVars, vmVars, errVars, devVars, polyVars>>

\* Line 25: *lambda_count += 1
NewIncrement(th) ==
    /\ lam_pc[th] = "locked"
    /\ lambda_count' = lambda_count + 1
    /\ lam_pc' = [lam_pc EXCEPT ![th] = "incremented"]
    /\ UNCHANGED <<lambda_lock, lam_ticket, lam_locks, made>>
    /\ UNCHANGED <<proc, monomorphs, rw_readers, rw_writer, poisoned, pc, call,
                   result, returned, ncalls>>
    /\ UNCHANGED <<tcVars, compVars, vmVars, errVars, devVars, polyVars>>

\* Lines 26-33: format the label from the counter, return (the guard drops)
NewReturn(th, args, ret) ==
    /\ lam_pc[th] = "incremented"
    /\ made' = made \cup
          {[ticket |-> lam_ticket[th],
            proc |-> ProcedureNew(<<>>, args, ret, Body("Var", <<>>), lambda_count)]}
    /\ lambda_lock' = NoThread
    /\ lam_pc' = [lam_pc EXCEPT ![th] = "idle"]
    /\ UNCHANGED <<lam_ticket, lam_locks, lambda_count>>
    /\ UNCHANGED <<proc, monomorphs, rw_readers, rw_writer, poisoned, pc, call,
                   result, returned, ncalls>>
    /\ UNCHANGED <<tcVars, compVars, vmVars, errVars, devVars, polyVars>>

NextLambda ==
    \E th \in Threads :
        \/ NewLock(th)
        \/ NewIncrement(th)
        \/ \E ret \in ConcreteTypes : NewReturn(th, <<Arg("x", ret)>>, ret)

SpecLambda == InitLambda /\ [][NextLambda]_vars

LambdaNumber(p) == p.mangled_name[2]

\* C9: no two constructed procedures have the same label __LAMBDA_n, and the
\* numbers grow strictly in the order in which the calls took the counter lock.
C9_LambdaLabelsUnique ==
    \A a, b \in made :
        /\ a.proc.mangled_name[1] = "__LAMBDA_"
        /\ a # b => a.proc.mangled_name # b.proc.mangled_name
        /\ a.ticket < b.ticket => LambdaNumber(a.proc) < LambdaNumber(b.proc)

\* Procedures were constructed while another thread was inside Procedure::new
C9_Witness ==
    /\ Cardinality(made) >= 2
    /\ \E th \in Threads : lam_pc[th] # "idle"

----------------------------------------------------------------------------
(* impl Compile for Procedure *)

A == "A"
SP == "SP"
FP == "FP"

\* FP.deref().offset(k), SP.deref().offset(k)
DerefOffset(reg, k) == [base |-> reg, offset |-> k]

\* CoreOp
OpFn(label) == [op |-> "Fn", label |-> label]
OpCopy(dst, src, size) == [op |-> "Copy", dst |-> dst, src |-> src, size |-> size]
OpPop(size) == [op |-> "Pop", dst |-> "None", size |-> size]
OpEnd == [op |-> "End"]
OpSetLabel(reg, label) == [op |-> "SetLabel", dst |-> reg, label |-> label]
OpPush(reg, size) == [op |-> "Push", src |-> reg, size |-> size]

\* Type::get_size, in cells; -1 for a type that has no size
SizeOf(ty) ==
    CASE ty = "None" -> 0
      [] ty \in {"Int", "Char"} -> 1
      [] ty = "Pair" -> 2
      [] OTHER -> -1

RECURSIVE SumSizes(_)
SumSizes(tys) == IF tys = <<>> THEN 0 ELSE SizeOf(Head(tys)) + SumSizes(Tail(tys))

\* Env::define_args: the total size of the arguments, or an error
DefineArgs(args) ==
    IF \E i \in 1..Len(args) : SizeOf(args[i]) < 0
    THEN [ok |-> FALSE, size |-> 0]
    ELSE [ok |-> TRUE, size |-> SumSizes(args)]

\* Procedure::push_label
PushLabel(label) == <<OpSetLabel(A, label), OpPush(A, 1)>>

EpilogueLabelFirst(label, args_size, ret_size) ==
    PushLabel(label)
    \o <<OpCopy(DerefOffset(FP, 1 - args_size), DerefOffset(SP, 1 - ret_size),
                ret_size),
         OpPop(args_size),
         OpEnd>>

\* Lines 82-96: the ops after the body
EpilogueDstOneLower(label, args_size, ret_size) ==
    <<OpCopy(DerefOffset(FP, 0 - args_size), DerefOffset(SP, 1 - ret_size),
             ret_size),
      OpPop(args_size),
      OpEnd>>
    \o PushLabel(label)

Epilogue(label, args_size, ret_size) ==
    <<OpCopy(DerefOffset(FP, 1 - args_size), DerefOffset(SP, 1 - ret_size),
             ret_size),
      OpPop(args_size),
      OpEnd>>
    \o PushLabel(label)

\* The procedures compiled: a label, the argument types, the return type
CompLabels == {<<"__LAMBDA_", 1>>, <<"__LAMBDA_", 2>>}
CompArgs == {<<>>, <<"Int">>, <<"Pair", "Int">>, <<"U">>}
CompRets == {"None", "Int", "Pair", "U"}

\* What compiling a body does: the ops it appends, and whether it succeeds.
\* The third body holds a nested procedure.
CompBodies ==
    { [ops |-> <<>>, ok |-> TRUE],
      [ops |-> <<OpPush(A, 1)>>, ok |-> TRUE],
      [ops |-> <<OpFn(<<"__LAMBDA_", 3>>), OpEnd>>
               \o PushLabel(<<"__LAMBDA_", 3>>), ok |-> TRUE],
      [ops |-> <<OpPush(A, 1)>>, ok |-> FALSE] }

InitCompile ==
    /\ proc \in {p \in PolyProcs : p.name = "id"}
    /\ lambda_count = 0
    /\ IdleMono
    /\ IdleTypeCheck
    /\ IdleLambda
    /\ IdleCompile
    /\ IdleVm
    /\ IdleErr
    /\ IdleDevice
    /\ IdlePoly

\* Lines 69-98: Procedure::compile_expr
CompileExpr(label, args, ret, body) ==
    /\ ncompiles < MaxCompiles
    /\ ncompiles' = ncompiles + 1
    /\ LET da == DefineArgs(args)
           ret_size == SizeOf(ret)
           status == IF da.ok /\ ret_size >= 0 /\ body.ok THEN "ok" ELSE "err"
       IN  /\ sink' =
                IF ~da.ok \/ ret_size < 0 THEN sink
                ELSE IF ~body.ok THEN sink \o <<OpFn(label)>> \o body.ops
                ELSE sink \o <<OpFn(label)>> \o body.ops
                          \o Epilogue(label, da.size, ret_size)
           /\ comp_last' = [status |-> status, before |-> sink, label |-> label,
                            args |-> args, ret |-> ret, body |-> body.ops]
    /\ UNCHANGED <<monoVars, tcVars, lamVars, vmVars, errVars, devVars, polyVars>>

NextCompile ==
    \E label \in CompLabels, args \in CompArgs, ret \in CompRets,
       body \in CompBodies :
        CompileExpr(label, args, ret, body)

SpecCompile == InitCompile /\ [][NextCompile]_vars

\* C10: a successful compile_expr appends Fn(label), the ops of the body,
\* Copy{dst: FP+1-args_size, src: SP+1-ret_size, size: ret_size},
\* Pop(args_size), End, SetLabel(A, label), Push(A, 1), in this order and
\* with nothing else, after what the sink held.
C10_EmittedOps ==
    comp_last.status = "ok"
    => LET n == Len(comp_last.before)
           k == Len(comp_last.body)
           args_size == SumSizes(comp_last.args)
           ret_size == SizeOf(comp_last.ret)
       IN  /\ Len(sink) = n + k + 6
           /\ SubSeq(sink, 1, n) = comp_last.before
           /\ sink[n + 1] = [op |-> "Fn", label |-> comp_last.label]
           /\ SubSeq(sink, n + 2, n + 1 + k) = comp_last.body
           /\ sink[n + k + 2] =
                 [op |-> "Copy",
                  dst |-> [base |-> "FP", offset |-> 1 - args_size],
                  src |-> [base |-> "SP", offset |-> 1 - ret_size],
                  size |-> ret_size]
           /\ sink[n + k + 3] = [op |-> "Pop", dst |-> "None", size |-> args_size]
           /\ sink[n + k + 4] = [op |-> "End"]
           /\ sink[n + k + 5] =
                 [op |-> "SetLabel", dst |-> "A", label |-> comp_last.label]
           /\ sink[n + k + 6] = [op |-> "Push", src |-> "A", size |-> 1]

\* A procedure with arguments and a non-empty body was compiled into a sink
\* that already held ops.
C10_Witness ==
    /\ comp_last.status = "ok"
    /\ comp_last.before # <<>>
    /\ comp_last.body # <<>>
    /\ comp_last.args # <<>>

----------------------------------------------------------------------------
(* The stack machine the emitted CoreOps run on *)

B == "B"
C == "C"

\* A register as a Location (A, B, C, SP, FP)
Register(r) == [reg |-> r]
\* loc.deref() of a location in memory: the cell whose address loc holds
Indirect(loc) == [ind |-> loc]
\* loc.offset(k)
Offset(loc, k) == [loc EXCEPT !.offset = @ + k]

OpSet(dst, val) == [op |-> "Set", dst |-> dst, val |-> val]
OpPut(src, mode) == [op |-> "Put", src |-> src, mode |-> mode]
OpGet(dst, mode) == [op |-> "Get", dst |-> dst, mode |-> mode]
OpMove(src, dst) == [op |-> "Move", src |-> src, dst |-> dst]
OpGetAddress(addr, dst) == [op |-> "GetAddress", addr |-> addr, dst |-> dst]
OpNext(dst) == [op |-> "Next", dst |-> dst]
OpDec(dst) == [op |-> "Dec", dst |-> dst]
OpIsEqual(a, b, dst) == [op |-> "IsEqual", a |-> a, b |-> b, dst |-> dst]
OpIf(cond) == [op |-> "If", cond |-> cond]
OpElse == [op |-> "Else"]
OpWhile(cond) == [op |-> "While", cond |-> cond]

\* `c as u8 as i64`: the cell value of a character
Ord ==
    "'" :> 39 @@ "[" :> 91 @@ "]" :> 93 @@ "," :> 44 @@ " " :> 32 @@
    "(" :> 40 @@ ")" :> 41 @@ "{" :> 123 @@ "}" :> 125 @@ "=" :> 61 @@
    "&" :> 38 @@ "\\" :> 92 @@ "0" :> 48 @@ "t" :> 116 @@ "r" :> 114 @@
    "u" :> 117 @@ "e" :> 101 @@ "f" :> 102 @@ "a" :> 97 @@ "l" :> 108 @@
    "s" :> 115 @@ "m" :> 109 @@ "N" :> 78 @@ "o" :> 111 @@ "n" :> 110 @@
    "E" :> 69 @@ "X" :> 88 @@ "Y" :> 89 @@ "O" :> 79 @@ "P" :> 80 @@
    "Q" :> 81 @@ "x" :> 120 @@ "y" :> 121

\* A string as the sequence of its characters
RECURSIVE Codes(_)
Codes(text) == IF text = <<>> THEN <<>> ELSE <<Ord[Head(text)]>> \o Codes(Tail(text))

RECURSIVE AddressOf(_, _, _)
RECURSIVE ValueAt(_, _, _)
\* The address of the cell a location in memory names
AddressOf(loc, reg, tape) ==
    IF "ind" \in DOMAIN loc THEN ValueAt(loc.ind, reg, tape)
    ELSE reg[loc.base] + loc.offset
\* The value a location holds
ValueAt(loc, reg, tape) ==
    IF "reg" \in DOMAIN loc THEN reg[loc.reg]
    ELSE tape[AddressOf(loc, reg, tape)]

\* The registers and the tape after writing v to a location
StoreReg(loc, v, reg, tape) ==
    IF "reg" \in DOMAIN loc THEN [reg EXCEPT ![loc.reg] = v] ELSE reg
StoreTape(loc, v, reg, tape) ==
    IF "reg" \in DOMAIN loc THEN tape
    ELSE [tape EXCEPT ![AddressOf(loc, reg, tape)] = v]

\* Copy: n cells from address src to address dst, one cell after the other
\* from the lowest address up
RECURSIVE CopyCells(_, _, _, _)
CopyCells(tape, dst, src, n) ==
    IF n = 0 THEN tape
    ELSE CopyCells([tape EXCEPT ![dst] = tape[src]], dst + 1, src + 1, n - 1)

\* The End (or, for an If, the Else) that closes the block opened before i
RECURSIVE BlockEnd(_, _, _, _)
BlockEnd(prog, i, depth, else_too) ==
    LET o == prog[i].op
    IN  IF o \in {"If", "While"} THEN BlockEnd(prog, i + 1, depth + 1, else_too)
        ELSE IF o = "End"
             THEN IF depth = 0 THEN i
                  ELSE BlockEnd(prog, i + 1, depth - 1, else_too)
        ELSE IF o = "Else" /\ depth = 0 /\ else_too THEN i
        ELSE BlockEnd(prog, i + 1, depth, else_too)

\* The If or While that opened the block an End at i + 1 closes
RECURSIVE BlockStart(_, _, _)
BlockStart(prog, i, depth) ==
    LET o == prog[i].op
    IN  IF o = "End" THEN BlockStart(prog, i - 1, depth + 1)
        ELSE IF o \in {"If", "While"}
             THEN IF depth = 0 THEN i ELSE BlockStart(prog, i - 1, depth - 1)
        ELSE BlockStart(prog, i - 1, depth)

Running == vm_case.status = "ok" /\ vm_ip <= Len(vm_prog)
Halted == vm_case.status = "ok" /\ vm_ip = Len(vm_prog) + 1
CurrentOp == vm_prog[vm_ip]

\* Set, Move, GetAddress, Next, Dec, IsEqual, Copy: write a register or cells
ExecStore ==
    /\ Running
    /\ CurrentOp.op \in {"Set", "Move", "GetAddress", "Next", "Dec", "IsEqual", "Copy"}
    /\ LET o == CurrentOp
           v == CASE o.op = "Set" -> o.val
                  [] o.op = "Move" -> ValueAt(o.src, vm_reg, vm_tape)
                  [] o.op = "GetAddress" -> AddressOf(o.addr, vm_reg, vm_tape)
                  [] o.op = "Next" -> ValueAt(o.dst, vm_reg, vm_tape) + 1
                  [] o.op = "Dec" -> ValueAt(o.dst, vm_reg, vm_tape) - 1
                  [] o.op = "IsEqual" ->
                        IF ValueAt(o.a, vm_reg, vm_tape) = ValueAt(o.b, vm_reg, vm_tape)
                        THEN 1 ELSE 0
                  [] OTHER -> 0
       IN  IF o.op = "Copy"
           THEN /\ vm_tape' = CopyCells(vm_tape, AddressOf(o.dst, vm_reg, vm_tape),
                                        AddressOf(o.src, vm_reg, vm_tape), o.size)
                /\ vm_reg' = vm_reg
           ELSE /\ vm_reg' = StoreReg(o.dst, v, vm_reg, vm_tape)
                /\ vm_tape' = StoreTape(o.dst, v, vm_reg, vm_tape)
    /\ vm_ip' = vm_ip + 1
    /\ UNCHANGED <<vm_prog, vm_out, vm_case>>
    /\ UNCHANGED <<monoVars, tcVars, lamVars, compVars, errVars, devVars, polyVars>>

\* Pop(None, size): drop size cells from the stack
ExecPop ==
    /\ Running
    /\ CurrentOp.op = "Pop"
    /\ vm_reg' = [vm_reg EXCEPT !["SP"] = @ - CurrentOp.size]
    /\ vm_ip' = vm_ip + 1
    /\ UNCHANGED <<vm_prog, vm_tape, vm_out, vm_case>>
    /\ UNCHANGED <<monoVars, tcVars, lamVars, compVars, errVars, devVars, polyVars>>

\* Put(src, mode): Device::put(value of src, mode)
ExecPut ==
    /\ Running
    /\ CurrentOp.op = "Put"
    /\ vm_out' = Append(vm_out, [val |-> ValueAt(CurrentOp.src, vm_reg, vm_tape),
                                 mode |-> CurrentOp.mode])
    /\ vm_ip' = vm_ip + 1
    /\ UNCHANGED <<vm_prog, vm_tape, vm_reg, vm_case>>
    /\ UNCHANGED <<monoVars, tcVars, lamVars, compVars, errVars, devVars, polyVars>>

\* Get(dst, mode): the value Device::get(mode) takes from the input is written
\* to dst
ExecGet ==
    /\ Running
    /\ CurrentOp.op = "Get"
    /\ \E n \in {0, 1, 65, 66} :
         /\ vm_tape' = StoreTape(CurrentOp.dst, n, vm_reg, vm_tape)
         /\ vm_reg' = StoreReg(CurrentOp.dst, n, vm_reg, vm_tape)
         /\ vm_out' = Append(vm_out, [val |-> n, mode |-> CurrentOp.mode])
    /\ vm_ip' = vm_ip + 1
    /\ UNCHANGED <<vm_prog, vm_case>>
    /\ UNCHANGED <<monoVars, tcVars, lamVars, compVars, errVars, devVars, polyVars>>

\* If, Else, While, End: structured control flow
ExecBranch ==
    /\ Running
    /\ CurrentOp.op \in {"If", "Else", "While", "End"}
    /\ LET o == CurrentOp
       IN  vm_ip' =
             CASE o.op = "If" ->
                    IF ValueAt(o.cond, vm_reg, vm_tape) # 0 THEN vm_ip + 1
                    ELSE BlockEnd(vm_prog, vm_ip + 1, 0, TRUE) + 1
               [] o.op = "While" ->
                    IF ValueAt(o.cond, vm_reg, vm_tape) # 0 THEN vm_ip + 1
                    ELSE BlockEnd(vm_prog, vm_ip + 1, 0, FALSE) + 1
               [] o.op = "Else" -> BlockEnd(vm_prog, vm_ip + 1, 0, FALSE) + 1
               [] OTHER ->
                    LET start == BlockStart(vm_prog, vm_ip - 1, 0)
                    IN  IF vm_prog[start].op = "While" THEN start ELSE vm_ip + 1
    /\ UNCHANGED <<vm_prog, vm_tape, vm_reg, vm_out, vm_case>>
    /\ UNCHANGED <<monoVars, tcVars, lamVars, compVars, errVars, devVars, polyVars>>

----------------------------------------------------------------------------
(* Types with structure, as the operators of lir/expr/ops meet them *)

TInt == [kind |-> "Int"]
TFloat == [kind |-> "Float"]
TChar == [kind |-> "Char"]
TBool == [kind |-> "Bool"]
\* Type::Poly: a type neither debug nor display has an arm for
TPoly == [kind |-> "Poly"]
TPointer(mutable, inner) == [kind |-> "Pointer", mutable |-> mutable, inner |-> inner]
TArray(elem, len) == [kind |-> "Array", elem |-> elem, len |-> len]
TTuple(items) == [kind |-> "Tuple", items |-> items]
Field(name, ty) == [name |-> name, ty |-> ty]
\* Struct, Union and EnumUnion hold their fields ordered by name (BTreeMap)
TStruct(fields) == [kind |-> "Struct", fields |-> fields]
TUnion(fields) == [kind |-> "Union", fields |-> fields]
TEnum(text, variants) == [kind |-> "Enum", text |-> text, variants |-> variants]
TEnumUnion(text, fields) == [kind |-> "EnumUnion", text |-> text, fields |-> fields]

Max(a, b) == IF a >= b THEN a ELSE b

RECURSIVE GetSize(_)
RECURSIVE SumGetSize(_)
RECURSIVE MaxGetSize(_)
\* Type::get_size: the number of cells of a value
GetSize(t) ==
    CASE t.kind \in {"Int", "Float", "Char", "Bool", "Enum", "Pointer"} -> 1
      [] t.kind = "Array" -> GetSize(t.elem) * t.len
      [] t.kind = "Tuple" -> SumGetSize(t.items)
      [] t.kind = "Struct" -> SumGetSize([i \in DOMAIN t.fields |-> t.fields[i].ty])
      [] t.kind = "Union" -> MaxGetSize([i \in DOMAIN t.fields |-> t.fields[i].ty])
      [] t.kind = "EnumUnion" ->
            MaxGetSize([i \in DOMAIN t.fields |-> t.fields[i].ty]) + 1
      [] OTHER -> 0
SumGetSize(tys) ==
    IF tys = <<>> THEN 0 ELSE GetSize(Head(tys)) + SumGetSize(Tail(tys))
MaxGetSize(tys) ==
    IF tys = <<>> THEN 0 ELSE Max(GetSize(Head(tys)), MaxGetSize(Tail(tys)))

\* format!("{t}") of an Enum or EnumUnion type
TypeText(t) == t.text

\* Type::variant_index(variants, name): the position of the name, from 0
VariantIndex(names, name) ==
    CHOOSE k \in 0..(Len(names) - 1) : names[k + 1] = name

\* Does Put::debug have an arm for every type it reaches?
RECURSIVE Debuggable(_)
Debuggable(t) ==
    CASE t.kind \in {"Int", "Float", "Char", "Bool", "Enum", "Pointer", "None"} -> TRUE
      [] t.kind = "Array" -> t.len = 0 \/ t.elem.kind \in {"Int", "Float"}
                             \/ Debuggable(t.elem)
      [] t.kind = "Tuple" -> \A i \in DOMAIN t.items : Debuggable(t.items[i])
      [] t.kind \in {"Struct", "EnumUnion"} ->
            \A i \in DOMAIN t.fields : Debuggable(t.fields[i].ty)
      [] OTHER -> FALSE

----------------------------------------------------------------------------
(* Put::debug and Put::display: the ops that print a value in memory *)

\* for c in text.chars() { Set(reg, c); Put(reg, stdout_char) }
RECURSIVE PutText(_, _)
PutText(reg, text) ==
    IF text = <<>> THEN <<>>
    ELSE <<OpSet(Register(reg), Ord[Head(text)]), OpPut(Register(reg), "char")>>
         \o PutText(reg, Tail(text))

\* The separator between two elements
CommaSpace(reg) == PutText(reg, <<",", " ">>)

ArrayLoopFirstOnly(addr, array_len, mode) ==
    <<OpSet(Register(C), Ord["["]), OpPut(Register(C), "char"),
      OpGetAddress(addr, Register(A)),
      OpSet(Register(B), array_len),
      OpIf(Register(B)),
      OpPut(DerefOffset(A, 0), mode),
      OpEnd,
      OpSet(Register(C), Ord["]"]), OpPut(Register(C), "char")>>

\* A variant of the loop that puts ', ' after every element
ArrayLoopCommaAlways(addr, array_len, mode) ==
    <<OpSet(Register(C), Ord["["]), OpPut(Register(C), "char"),
      OpGetAddress(addr, Register(A)),
      OpSet(Register(B), array_len),
      OpWhile(Register(B)),
      OpPut(DerefOffset(A, 0), mode),
      OpNext(Register(A)),
      OpDec(Register(B))>>
    \o CommaSpace(C)
    \o <<OpEnd,
         OpSet(Register(C), Ord["]"]), OpPut(Register(C), "char")>>

\* Lines 209-227, 229-247, 503-521, 523-541: the loop over an array of Int or
\* of Float
ArrayLoop(addr, array_len, mode) ==
    <<OpSet(Register(C), Ord["["]), OpPut(Register(C), "char"),
      OpGetAddress(addr, Register(A)),
      OpSet(Register(B), array_len),
      OpWhile(Register(B)),
      OpPut(DerefOffset(A, 0), mode),
      OpNext(Register(A)),
      OpDec(Register(B)),
      OpIf(Register(B))>>
    \o CommaSpace(C)
    \o <<OpEnd,
         OpEnd,
         OpSet(Register(C), Ord["]"]), OpPut(Register(C), "char")>>

CharArrayLoopNoStop(addr, array_len) ==
    <<OpGetAddress(addr, Register(A)),
      OpSet(Register(B), array_len),
      OpWhile(Register(B)),
      OpPut(DerefOffset(A, 0), "char"),
      OpNext(Register(A)),
      OpDec(Register(B)),
      OpEnd>>

\* Lines 489-501: the loop of display over an array of Char
CharArrayLoop(addr, array_len) ==
    <<OpGetAddress(addr, Register(A)),
      OpSet(Register(B), array_len),
      OpWhile(Register(B)),
      OpIf(DerefOffset(A, 0)),
      OpPut(DerefOffset(A, 0), "char"),
      OpNext(Register(A)),
      OpDec(Register(B)),
      OpElse,
      OpSet(Register(B), 0),
      OpEnd,
      OpEnd>>

RECURSIVE Debug(_, _)
RECURSIVE DebugElements(_, _, _, _)
RECURSIVE DebugStructFields(_, _, _, _)
RECURSIVE DebugTupleItems(_, _, _, _)
RECURSIVE DebugEnumVariants(_, _, _)
RECURSIVE DebugVariants(_, _, _)
RECURSIVE DebugVariantsTagFirst(_, _, _)
RECURSIVE DebugTupleItemsSameOffset(_, _, _, _)

\* Lines 253-261, 545-553: for i in 0..array_len, the elements unrolled
DebugElements(addr, ty, array_len, i) ==
    IF i >= array_len THEN <<>>
    ELSE Debug(Offset(addr, i * GetSize(ty)), ty)
         \o (IF i < array_len - 1 THEN CommaSpace(A) ELSE <<>>)
         \o DebugElements(addr, ty, array_len, i + 1)

\* Lines 273-288: the fields of a Struct from the i-th on, with the running
\* offset
DebugStructFields(addr, fields, i, offset) ==
    IF i >= Len(fields) THEN <<>>
    ELSE LET field == fields[i + 1]
         IN  PutText(A, field.name)
             \o PutText(A, <<"=">>)
             \o Debug(Offset(addr, offset), field.ty)
             \o (IF i < Len(fields) - 1
                 THEN CommaSpace(A)
                      \o DebugStructFields(addr, fields, i + 1,
                                           offset + GetSize(field.ty))
                 ELSE DebugStructFields(addr, fields, i + 1, offset))

DebugTupleItemsSameOffset(addr, types, i, offset) ==
    IF i >= Len(types) THEN <<>>
    ELSE Debug(Offset(addr, offset), types[i + 1])
         \o (IF i < Len(types) - 1 THEN CommaSpace(A) ELSE <<>>)
         \o DebugTupleItemsSameOffset(addr, types, i + 1, offset)

\* Lines 297-306: the items of a Tuple from the i-th on, with the running
\* offset
DebugTupleItems(addr, types, i, offset) ==
    IF i >= Len(types) THEN <<>>
    ELSE LET ty == types[i + 1]
         IN  Debug(Offset(addr, offset), ty)
             \o (IF i < Len(types) - 1
                 THEN CommaSpace(A)
                      \o DebugTupleItems(addr, types, i + 1, offset + GetSize(ty))
                 ELSE DebugTupleItems(addr, types, i + 1, offset))

\* Lines 186-202: one comparison and one If per variant of an Enum
DebugEnumVariants(addr, t, i) ==
    IF i >= Len(t.variants) THEN <<>>
    ELSE LET variant == t.variants[i + 1]
             variant_id == VariantIndex(t.variants, variant)
         IN  <<OpMove(addr, Register(A)),
               OpSet(Register(B), variant_id),
               OpIsEqual(Register(A), Register(B), Register(C)),
               OpIf(Register(C))>>
             \o PutText(A, TypeText(t) \o <<" ", "o", "f", " ">> \o variant)
             \o <<OpEnd>>
             \o DebugEnumVariants(addr, t, i + 1)

DebugVariantsTagFirst(addr, t, i) ==
    IF i >= Len(t.fields) THEN <<>>
    ELSE LET name == t.fields[i + 1].name
             variants == [j \in DOMAIN t.fields |-> t.fields[j].name]
         IN  <<OpSet(Register(A), VariantIndex(variants, name)),
               OpIsEqual(addr, Register(A), Register(B)),
               OpIf(Register(B))>>
             \o PutText(A, TypeText(t) \o <<" ", "o", "f", " ">> \o name \o <<" ">>)
             \o Debug(addr, t.fields[i + 1].ty)
             \o <<OpEnd>>
             \o DebugVariantsTagFirst(addr, t, i + 1)

\* Lines 364-383: one comparison of the tag and one If per variant of an
\* EnumUnion
DebugVariants(addr, t, i) ==
    IF i >= Len(t.fields) THEN <<>>
    ELSE LET tag_address == Offset(addr, GetSize(t) - 1)
             data_address == addr
             variants == [j \in DOMAIN t.fields |-> t.fields[j].name]
             name == t.fields[i + 1].name
             variant_t == t.fields[i + 1].ty
             tag_value == VariantIndex(variants, name)
         IN  <<OpSet(Register(A), tag_value),
               OpIsEqual(tag_address, Register(A), Register(B)),
               OpIf(Register(B))>>
             \o PutText(A, TypeText(t) \o <<" ", "o", "f", " ">> \o name \o <<" ">>)
             \o Debug(data_address, variant_t)
             \o <<OpEnd>>
             \o DebugVariants(addr, t, i + 1)

\* Lines 459-475: one comparison and one If per variant of an Enum, display
RECURSIVE DisplayEnumVariants(_, _, _)
DisplayEnumVariants(addr, t, i) ==
    IF i >= Len(t.variants) THEN <<>>
    ELSE LET variant == t.variants[i + 1]
             variant_id == VariantIndex(t.variants, variant)
         IN  <<OpMove(addr, Register(A)),
               OpSet(Register(B), variant_id),
               OpIsEqual(Register(A), Register(B), Register(C)),
               OpIf(Register(C))>>
             \o PutText(A, variant)
             \o <<OpEnd>>
             \o DisplayEnumVariants(addr, t, i + 1)

\* Lines 97-425: Put::debug, for the types of Debuggable
Debug(addr, t) ==
    CASE t.kind = "Pointer" ->
            PutText(A, IF t.mutable THEN <<"&", "m", "u", "t", " ", "(">>
                       ELSE <<"&", "(">>)
            \o <<OpPut(addr, "int")>>
            \o PutText(A, <<")">>)
      [] t.kind = "Bool" ->
            <<OpIf(addr)>> \o PutText(A, <<"t", "r", "u", "e">>)
            \o <<OpElse>> \o PutText(A, <<"f", "a", "l", "s", "e">>)
            \o <<OpEnd>>
      [] t.kind = "None" -> PutText(A, <<"N", "o", "n", "e">>)
      [] t.kind = "Int" -> <<OpPut(addr, "int")>>
      [] t.kind = "Float" -> <<OpPut(addr, "float")>>
      [] t.kind = "Char" ->
            PutText(A, <<"'">>) \o <<OpPut(addr, "char")>> \o PutText(A, <<"'">>)
      [] t.kind = "Enum" -> DebugEnumVariants(addr, t, 0)
      [] t.kind = "Array" ->
            IF t.elem.kind = "Int" THEN ArrayLoop(addr, t.len, "int")
            ELSE IF t.elem.kind = "Float" THEN ArrayLoop(addr, t.len, "float")
            ELSE PutText(A, <<"[">>)
                 \o DebugElements(addr, t.elem, t.len, 0)
                 \o PutText(A, <<"]">>)
      [] t.kind = "Struct" ->
            PutText(A, <<"{">>)
            \o DebugStructFields(addr, t.fields, 0, 0)
            \o PutText(A, <<"}">>)
      [] t.kind = "Tuple" ->
            PutText(A, <<"(">>)
            \o DebugTupleItems(addr, t.items, 0, 0)
            \o PutText(A, <<")">>)
      [] t.kind = "EnumUnion" -> DebugVariants(addr, t, 0)
      [] OTHER -> <<>>

\* Lines 427-564: Put::display
Display(addr, t) ==
    CASE t.kind = "Char" -> <<OpPut(addr, "char")>>
      [] t.kind = "Pointer" ->
            IF t.inner.kind = "Char"
            THEN <<OpGetAddress(Indirect(addr), Register(A)),
                   OpWhile(DerefOffset(A, 0)),
                   OpPut(DerefOffset(A, 0), "char"),
                   OpNext(Register(A)),
                   OpEnd>>
            ELSE Debug(addr, t)
      [] t.kind = "Enum" ->
            DisplayEnumVariants(addr, t, 0)
            \o PutText(A, <<" ", "o", "f", " ">> \o TypeText(t))
      [] t.kind = "Array" ->
            IF t.elem.kind = "Char" THEN CharArrayLoop(addr, t.len)
            ELSE IF t.elem.kind = "Int" THEN ArrayLoop(addr, t.len, "int")
            ELSE IF t.elem.kind = "Float" THEN ArrayLoop(addr, t.len, "float")
            ELSE PutText(A, <<"[">>)
                 \o DebugElements(addr, t.elem, t.len, 0)
                 \o PutText(A, <<"]">>)
      [] OTHER -> Debug(addr, t)

PutCompileTypesPopOne(put, ty) ==
    LET size == GetSize(ty)
        addr == DerefOffset(SP, (-size) + 1)
    IN  (IF put = "Debug" THEN Debug(addr, ty) ELSE Display(addr, ty))
        \o <<OpPop(1)>>

\* Lines 584-604: Put::compile_types, the value being the top size cells
PutCompileTypes(put, ty) ==
    LET size == GetSize(ty)
        addr == DerefOffset(SP, (-size) + 1)
    IN  (IF put = "Debug" THEN Debug(addr, ty) ELSE Display(addr, ty))
        \o <<OpPop(size)>>

----------------------------------------------------------------------------
(* impl UnaryOp for Get *)

\* Type::equals on the types of the model, which hold no symbol to simplify
Equals(a, b) == a = b

\* The ops the sink holds when compile_types returns, and what it returns
Compiled(ops) == [status |-> "ok", ops |-> ops]
Failed(error, ops) == [status |-> error, ops |-> ops]

\* A variant of Get::compile_types that writes the cell on top of the stack
GetCompileTypesOneDeref(ty) ==
    IF ty.kind = "Pointer" /\ ty.mutable /\ ty.inner \in {TChar, TInt, TFloat}
    THEN Compiled(<<OpGet(DerefOffset(SP, 0), "StdinInt"), OpPop(1)>>)
    ELSE Failed("UnsupportedOperation", <<>>)

\* Lines 39-69 of io.rs: Get::compile_types
GetCompileTypes(ty) ==
    LET dst == Indirect(DerefOffset(SP, 0))
        got == IF Equals(ty, TPointer(TRUE, TChar))
                 THEN <<OpGet(dst, "StdinChar")>>
               ELSE IF Equals(ty, TPointer(TRUE, TInt))
                 THEN <<OpGet(dst, "StdinInt")>>
               ELSE IF Equals(ty, TPointer(TRUE, TFloat))
                 THEN <<OpGet(dst, "StdinFloat")>>
               ELSE <<>>
    IN  IF got = <<>> THEN Failed("UnsupportedOperation", <<>>)
        ELSE Compiled(got \o <<OpPop(1)>>)

----------------------------------------------------------------------------
(* impl UnaryOp for Tag, impl UnaryOp for Data *)

TagCompileTypesNoMove(ty) == <<OpPop(GetSize(ty) - 1)>>

DataCompileTypesPopAll(ty) == <<OpPop(GetSize(ty))>>

\* Lines 59-78 of tagged_union.rs: Tag::compile_types
TagCompileTypes(ty) ==
    LET size == GetSize(ty)
    IN  <<OpMove(DerefOffset(SP, 0), DerefOffset(SP, 1 - size)),
          OpPop(size - 1)>>

\* Lines 110-121 of tagged_union.rs: Data::return_type of an EnumUnion
DataReturnType(ty) == TUnion(ty.fields)

\* Lines 147-157 of tagged_union.rs: Data::compile_types
DataCompileTypes(ty) == <<OpPop(1)>>

----------------------------------------------------------------------------
(* The expressions compiled and run, and the stacks they meet *)

MaxArgsSize == 3
MaxRetSize == 3
MaxArrayLen == 3

\* The values a cell of an operand holds: zero, a tag, characters
CellValues == {0, 1, 65, 66}
\* The cells of the stack below the operand: a string that ends in a zero
Below == <<66, 65, 0>>
\* The values a pointer holds: the addresses of the cells below
PointerValues == DOMAIN Below

\* The types debug and display are asked to print
EnumTypes == {TEnum(<<"E">>, <<<<"X">>, <<"Y">>>>)}
EnumUnionTypes ==
    {TEnumUnion(<<"O">>, <<Field(<<"P">>, TInt),
                          Field(<<"Q">>, TTuple(<<TChar, TChar>>))>>),
     TEnumUnion(<<"O">>, <<Field(<<"N">>, TNone), Field(<<"P">>, TBool)>>),
     TEnumUnion(<<"O">>, <<Field(<<"N">>, TNone)>>)}
ArrayTypes ==
    {TArray(elem, n) : elem \in {TInt, TFloat, TChar, TBool}, n \in 0..MaxArrayLen}
TupleTypes ==
    {TTuple(<<>>), TTuple(<<TInt>>), TTuple(<<TArray(TChar, 2), TInt>>),
     TTuple(<<TInt, TTuple(<<TChar, TInt>>), TChar>>)}
StructTypes ==
    {TStruct(<<>>), TStruct(<<Field(<<"x">>, TInt)>>),
     TStruct(<<Field(<<"x">>, TTuple(<<TChar, TChar>>)), Field(<<"y">>, TInt)>>)}
PointerTypes == {TPointer(TRUE, TInt), TPointer(FALSE, TInt), TPointer(FALSE, TChar)}
PutTypes ==
    {TInt, TFloat, TChar, TBool, TNone, TPoly} \cup PointerTypes \cup EnumTypes
    \cup EnumUnionTypes \cup ArrayTypes \cup TupleTypes \cup StructTypes

\* The sequences of n cells over a set of values
RECURSIVE CellSeqs(_, _)
CellSeqs(n, values) ==
    IF n = 0 THEN {<<>>}
    ELSE {Append(cells, v) : cells \in CellSeqs(n - 1, values), v \in values}

\* The values of a type as cells
ValuesOf(ty) ==
    CellSeqs(GetSize(ty), IF ty.kind = "Pointer" THEN PointerValues ELSE CellValues)

\* The cells of the arguments and of the return value of a call
ArgCells(n) == [i \in 1..n |-> 10 + i]
RetCells(n) == [i \in 1..n |-> 20 + i]

NewCase(kind, ty, mode, operand, args_size, ret_size) ==
    [kind |-> kind, status |-> "new", ty |-> ty, mode |-> mode,
     sp0 |-> Len(Below), tape0 |-> Below \o operand,
     args_size |-> args_size, ret_size |-> ret_size]

EpilogueCases ==
    {NewCase("epilogue", TNone, "none", ArgCells(a) \o RetCells(r), a, r) :
        a \in 0..MaxArgsSize, r \in 0..MaxRetSize}
TagCases ==
    UNION {{NewCase("tag", ty, "none", cells, 0, 0) : cells \in ValuesOf(ty)} :
           ty \in EnumUnionTypes}
DataCases ==
    UNION {{NewCase("data", ty, "none", cells, 0, 0) : cells \in ValuesOf(ty)} :
           ty \in EnumUnionTypes}
PutCases ==
    UNION {{NewCase("put", ty, mode, cells, 0, 0) :
                cells \in ValuesOf(ty), mode \in {"Debug", "Display"}} :
           ty \in PutTypes}

\* The types get is asked to read into
GetTypes ==
    {TPointer(m, t) : m \in BOOLEAN, t \in {TChar, TInt, TFloat, TBool}}
    \cup {TInt, TChar, TPointer(TRUE, TPointer(TRUE, TInt)), TArray(TChar, 2)}
GetCases ==
    UNION {{NewCase("get", ty, "none", cells, 0, 0) : cells \in ValuesOf(ty)} :
           ty \in GetTypes}

\* The machine before an expression is compiled: the operand on the stack,
\* the registers A, B and C holding whatever earlier code left in them
InitExec ==
    /\ proc \in {p \in PolyProcs : p.name = "id"}
    /\ lambda_count = 0
    /\ IdleMono
    /\ IdleTypeCheck
    /\ IdleLambda
    /\ IdleCompile
    /\ IdleErr
    /\ IdleDevice
    /\ IdlePoly
    /\ vm_case \in EpilogueCases \cup TagCases \cup DataCases \cup PutCases \cup GetCases
    /\ vm_prog = <<>>
    /\ vm_ip = 1
    /\ vm_tape = vm_case.tape0
    /\ \E left \in {0, 1} :
         vm_reg = [r \in Registers |->
                     CASE r = "SP" -> Len(vm_case.tape0)
                       [] r = "FP" -> vm_case.sp0 + vm_case.args_size
                       [] OTHER -> left]
    /\ vm_out = <<>>

\* The ops compiled for the case are handed to the machine
Load(ops, ok) ==
    /\ vm_case.status = "new"
    /\ vm_prog' = IF ok THEN ops ELSE <<>>
    /\ vm_case' = [vm_case EXCEPT !.status = IF ok THEN "ok" ELSE "err"]
    /\ UNCHANGED <<vm_ip, vm_tape, vm_reg, vm_out>>
    /\ UNCHANGED <<monoVars, tcVars, lamVars, compVars, errVars, devVars, polyVars>>

\* Procedure::compile_expr: the ops of the epilogue that run before the End
\* of the procedure
CompileEpilogue ==
    /\ vm_case.kind = "epilogue"
    /\ Load(SubSeq(Epilogue(<<"__LAMBDA_", 1>>, vm_case.args_size,
                            vm_case.ret_size), 1, 2), TRUE)

CompileTag ==
    /\ vm_case.kind = "tag"
    /\ Load(TagCompileTypes(vm_case.ty), TRUE)

CompileData ==
    /\ vm_case.kind = "data"
    /\ Load(DataCompileTypes(vm_case.ty), TRUE)

CompilePut ==
    /\ vm_case.kind = "put"
    /\ Load(PutCompileTypes(vm_case.mode, vm_case.ty), Debuggable(vm_case.ty))

\* Get::compile_types with an empty sink: the ops it appended stay in the sink
\* whatever it returns
CompileGet ==
    /\ vm_case.kind = "get"
    /\ vm_case.status = "new"
    /\ LET r == GetCompileTypes(vm_case.ty)
       IN  /\ vm_prog' = r.ops
           /\ vm_case' = [vm_case EXCEPT !.status = r.status]
    /\ UNCHANGED <<vm_ip, vm_tape, vm_reg, vm_out>>
    /\ UNCHANGED <<monoVars, tcVars, lamVars, compVars, errVars, devVars, polyVars>>

NextExec ==
    \/ CompileGet
    \/ ExecGet
    \/ CompileEpilogue
    \/ CompileTag
    \/ CompileData
    \/ CompilePut
    \/ ExecStore
    \/ ExecPop
    \/ ExecPut
    \/ ExecBranch

SpecExec == InitExec /\ [][NextExec]_vars

\* The machine executes the next op as long as there is one
SpecExecFair == SpecExec /\ WF_vars(NextExec)

----------------------------------------------------------------------------
(* Properties of the emitted code, run on the machine *)

\* C11: when the caller has pushed args_size cells and the body has left
\* ret_size cells on top of them, the Copy and the Pop of the epilogue leave
\* the cells of the return value, unaltered, from the cell of the first
\* argument on, and the stack pointer at its value before the arguments were
\* pushed plus ret_size, for all sizes, the overlapping ones included.
C11_EpilogueLeavesReturnValue ==
    (vm_case.kind = "epilogue" /\ Halted) =>
        /\ vm_reg["SP"] = vm_case.sp0 + vm_case.ret_size
        /\ \A j \in 1..vm_case.ret_size :
              vm_tape[vm_case.sp0 + j] = RetCells(vm_case.ret_size)[j]
        /\ \A i \in 1..vm_case.sp0 : vm_tape[i] = vm_case.tape0[i]

\* a return value larger than the arguments, copied over cells of its own
C11_Witness ==
    /\ vm_case.kind = "epilogue"
    /\ Halted
    /\ vm_case.args_size > 0
    /\ vm_case.ret_size > vm_case.args_size
    /\ vm_reg["SP"] = vm_case.sp0 + vm_case.ret_size

\* The register or the location in memory an op writes, if it writes one
Writes(o) == o.op \in {"Set", "Move", "GetAddress", "Next", "Dec", "IsEqual", "Copy"}

\* C12: the ops Put::compile_types emits, in debug and in display mode, change
\* the stack pointer only by the final Pop(size_of(T)): every op before it
\* that writes writes one of the registers A, B, C, so SP, FP and the tape
\* stay as they were while the value is printed, and after the last op
\* exactly size_of(T) cells have been removed.
C12_PutPopsExactlyTheValue ==
    (vm_case.kind = "put" /\ vm_case.status = "ok") =>
        /\ vm_prog[Len(vm_prog)] = OpPop(GetSize(vm_case.ty))
        /\ \A i \in 1..(Len(vm_prog) - 1) :
              /\ vm_prog[i].op \notin {"Pop", "Push", "Copy"}
              /\ Writes(vm_prog[i]) =>
                    vm_prog[i].dst \in {Register(A), Register(B), Register(C)}
        /\ vm_tape = vm_case.tape0
        /\ vm_reg["FP"] = vm_case.sp0
        /\ vm_reg["SP"] = IF Halted THEN vm_case.sp0
                          ELSE vm_case.sp0 + GetSize(vm_case.ty)

\* a value of several cells has been printed and popped
C12_Witness ==
    /\ vm_case.kind = "put"
    /\ Halted
    /\ GetSize(vm_case.ty) > 1
    /\ vm_out # <<>>
    /\ vm_reg["SP"] = vm_case.sp0

\* C13: for an EnumUnion operand of size >= 1 cells on top of the stack, its
\* tag in the top cell, the ops of Tag::compile_types leave one cell in place
\* of the operand (the stack shrinks by size - 1), that cell holds the tag,
\* and no cell below the operand is modified.
C13_TagLeavesTheTag ==
    (vm_case.kind = "tag" /\ Halted) =>
        /\ vm_reg["SP"] = vm_case.sp0 + 1
        /\ vm_tape[vm_case.sp0 + 1] = vm_case.tape0[Len(vm_case.tape0)]
        /\ \A i \in 1..vm_case.sp0 : vm_tape[i] = vm_case.tape0[i]

\* an operand of several cells whose tag differs from its first payload cell
C13_Witness ==
    /\ vm_case.kind = "tag"
    /\ Halted
    /\ GetSize(vm_case.ty) > 1
    /\ vm_case.tape0[Len(vm_case.tape0)] # vm_case.tape0[vm_case.sp0 + 1]
    /\ vm_tape[vm_reg["SP"]] = vm_case.tape0[Len(vm_case.tape0)]

\* C14: for an EnumUnion operand of size cells the ops of Data::compile_types
\* remove the tag cell only: the size - 1 payload cells stay on the stack
\* unchanged, and size - 1 is the size of the Union type Data::return_type
\* reports (the largest payload of a variant).
C14_DataRemovesOnlyTheTag ==
    (vm_case.kind = "data" /\ Halted) =>
        LET size == GetSize(vm_case.ty)
        IN  /\ vm_reg["SP"] = vm_case.sp0 + size - 1
            /\ \A i \in 1..(vm_case.sp0 + size - 1) : vm_tape[i] = vm_case.tape0[i]
            /\ size - 1 = GetSize(DataReturnType(vm_case.ty))
            /\ size - 1 = MaxGetSize([i \in DOMAIN vm_case.ty.fields |->
                                        vm_case.ty.fields[i].ty])

\* the tag of an operand with a payload of two cells has been removed
C14_Witness ==
    /\ vm_case.kind = "data"
    /\ Halted
    /\ GetSize(DataReturnType(vm_case.ty)) = 2
    /\ vm_reg["SP"] = vm_case.sp0 + 2

\* The cells of the operand as they were pushed
Operand == SubSeq(vm_case.tape0, vm_case.sp0 + 1, Len(vm_case.tape0))

\* The output of the device when the values are put as characters
AsChars(values) == [i \in DOMAIN values |-> [val |-> values[i], mode |-> "char"]]

\* The cells before the first zero cell
RECURSIVE UpToZero(_)
UpToZero(cells) ==
    IF cells = <<>> \/ Head(cells) = 0 THEN <<>>
    ELSE <<Head(cells)>> \o UpToZero(Tail(cells))

PrintsCharArray(mode) ==
    /\ vm_case.kind = "put"
    /\ vm_case.mode = mode
    /\ vm_case.ty.kind = "Array"
    /\ vm_case.ty.elem = TChar

\* C15: display of a Char[n] prints the characters of its cells up to, not
\* including, the first zero cell, or all n when none is zero, and nothing
\* else (no brackets, quotes or separators); the loop terminates for every
\* n >= 0 and every content of the cells.
C15_DisplayCharArray ==
    /\ []((PrintsCharArray("Display") /\ Halted) => vm_out = AsChars(UpToZero(Operand)))
    /\ (PrintsCharArray("Display") ~> Halted)

\* [65, 66, 0] has been displayed as AB
C15_Witness ==
    /\ PrintsCharArray("Display")
    /\ Halted
    /\ Operand = <<65, 66, 0>>
    /\ vm_out = AsChars(<<65, 66>>)

\* The values joined by the separator ', '
RECURSIVE JoinCommaSpace(_)
JoinCommaSpace(parts) ==
    IF parts = <<>> THEN <<>>
    ELSE IF Len(parts) = 1 THEN Head(parts)
    ELSE Head(parts) \o AsChars(Codes(<<",", " ">>)) \o JoinCommaSpace(Tail(parts))

\* A character between single quotes, the zero character as the escape \0
QuotedEscaped(c) ==
    AsChars(Codes(<<"'">>))
    \o AsChars(IF c = 0 THEN Codes(<<"\\", "0">>) ELSE <<c>>)
    \o AsChars(Codes(<<"'">>))

\* C16: debug of a Char[n] prints '[', each of the n elements as its
\* character between single quotes, consecutive elements separated by ', ',
\* then ']'; a zero cell is printed as the two characters \0 between the
\* quotes.
C16_DebugCharArrayEscapesZero ==
    (PrintsCharArray("Debug") /\ Halted) =>
        vm_out = AsChars(Codes(<<"[">>))
                 \o JoinCommaSpace([i \in DOMAIN Operand |-> QuotedEscaped(Operand[i])])
                 \o AsChars(Codes(<<"]">>))

\* The output of the device for a text
Text(text) == AsChars(Codes(text))

\* The sum of the sizes of the first n types
SizeBefore(tys, n) == SumGetSize(SubSeq(tys, 1, n))

\* The cells of the i-th of the values laid out one after the other
Slice(cells, tys, i) ==
    SubSeq(cells, SizeBefore(tys, i - 1) + 1, SizeBefore(tys, i))

\* What debug is to print for a value of a type held in the cells: the
\* fields in the order of the type, each read from the cells after those of
\* the fields before it, ', ' between two fields
RECURSIVE Render(_, _)
Render(t, cells) ==
    CASE t.kind = "Int" -> <<[val |-> cells[1], mode |-> "int"]>>
      [] t.kind = "Float" -> <<[val |-> cells[1], mode |-> "float"]>>
      [] t.kind = "Char" -> Text(<<"'">>) \o AsChars(<<cells[1]>>) \o Text(<<"'">>)
      [] t.kind = "Bool" ->
            IF cells[1] # 0 THEN Text(<<"t", "r", "u", "e">>)
            ELSE Text(<<"f", "a", "l", "s", "e">>)
      [] t.kind = "None" -> Text(<<"N", "o", "n", "e">>)
      [] t.kind = "Array" ->
            LET tys == [i \in 1..t.len |-> t.elem]
            IN  Text(<<"[">>)
                \o JoinCommaSpace([i \in 1..t.len |-> Render(t.elem, Slice(cells, tys, i))])
                \o Text(<<"]">>)
      [] t.kind = "Tuple" ->
            Text(<<"(">>)
            \o JoinCommaSpace([i \in DOMAIN t.items |->
                                  Render(t.items[i], Slice(cells, t.items, i))])
            \o Text(<<")">>)
      [] t.kind = "Struct" ->
            LET tys == [i \in DOMAIN t.fields |-> t.fields[i].ty]
            IN  Text(<<"{">>)
                \o JoinCommaSpace([i \in DOMAIN t.fields |->
                                      Text(t.fields[i].name) \o Text(<<"=">>)
                                      \o Render(tys[i], Slice(cells, tys, i))])
                \o Text(<<"}">>)
      [] OTHER -> <<>>

\* C17: for an EnumUnion value of size cells the debug code reads the tag from
\* the last cell (addr + size - 1) and the payload from addr: for a tag that
\* is the index k of a variant it prints the text of that variant only (the
\* type, ' of ', the variant's name, then the payload printed as a value of
\* variant k's type), and for a tag that is no variant's index nothing.
C17_DebugEnumUnionDispatch ==
    (vm_case.kind = "put" /\ vm_case.mode = "Debug" /\ vm_case.ty.kind = "EnumUnion"
     /\ Halted) =>
        LET t == vm_case.ty
            tag == Operand[GetSize(t)]
        IN  IF tag \in 0..(Len(t.fields) - 1)
            THEN LET variant == t.fields[tag + 1]
                 IN  vm_out = Text(TypeText(t) \o <<" ", "o", "f", " ">>
                                   \o variant.name \o <<" ">>)
                              \o Render(variant.ty,
                                        SubSeq(Operand, 1, GetSize(variant.ty)))
            ELSE vm_out = <<>>

\* the second variant, its payload two characters, has been printed
C17_Witness ==
    /\ vm_case.kind = "put"
    /\ vm_case.mode = "Debug"
    /\ vm_case.ty.kind = "EnumUnion"
    /\ Halted
    /\ Operand = <<65, 66, 1>>
    /\ vm_out = Text(<<"O", " ", "o", "f", " ", "Q", " ", "(", "'">>)
                \o AsChars(<<65>>) \o Text(<<"'", ",", " ", "'">>)
                \o AsChars(<<66>>) \o Text(<<"'", ")">>)

\* C19: debug of a Struct or Tuple prints the fields in the order of the
\* declaration, field i read from addr plus the sum of the sizes of the
\* fields before it, and ', ' exactly between two consecutive fields (none
\* after the last, none for an empty or single-field value).
C19_DebugFieldsInOrder ==
    (vm_case.kind = "put" /\ vm_case.mode = "Debug"
     /\ vm_case.ty.kind \in {"Struct", "Tuple"} /\ Halted) =>
        vm_out = Render(vm_case.ty, Operand)

\* a tuple whose second item lies after an item of two cells has been printed
C19_Witness ==
    /\ vm_case.kind = "put"
    /\ vm_case.mode = "Debug"
    /\ vm_case.ty = TTuple(<<TArray(TChar, 2), TInt>>)
    /\ Halted
    /\ Operand = <<65, 66, 1>>
    /\ vm_out[Len(vm_out) - 1] = [val |-> 1, mode |-> "int"]

\* The number of ops of a kind in a program
CountOps(prog, kind) == Cardinality({i \in DOMAIN prog : prog[i].op = kind})

\* The locations an op reads or writes
LocationsOf(o) ==
    CASE o.op \in {"Set", "Next", "Dec"} -> {o.dst}
      [] o.op = "Put" -> {o.src}
      [] o.op = "Move" -> {o.src, o.dst}
      [] o.op = "GetAddress" -> {o.addr, o.dst}
      [] o.op = "IsEqual" -> {o.a, o.b, o.dst}
      [] o.op \in {"If", "While"} -> {o.cond}
      [] OTHER -> {}

\* The ops before the final Pop that name the cell at an offset of the operand
OpsAt(prog, addr) ==
    {i \in 1..(Len(prog) - 1) : addr \in LocationsOf(prog[i])}

\* One While loop emitted once: the ops do not depend on the length, and only
\* the GetAddress before the loop names the operand
Looped ==
    /\ CountOps(vm_prog, "While") = 1
    /\ Len(vm_prog) = Len(PutCompileTypes(vm_case.mode, TArray(vm_case.ty.elem, 0)))
    /\ \A i \in 1..(Len(vm_prog) - 1) :
          \A loc \in LocationsOf(vm_prog[i]) :
              "base" \in DOMAIN loc /\ loc.base = SP => vm_prog[i].op = "GetAddress"

\* Unrolled: no loop, and for each element of the array ops that name its cell
Unrolled ==
    /\ CountOps(vm_prog, "While") = 0
    /\ \A k \in 0..(vm_case.ty.len - 1) :
          OpsAt(vm_prog, DerefOffset(SP, (1 - GetSize(vm_case.ty))
                                         + k * GetSize(vm_case.ty.elem))) # {}

PrintsArray ==
    /\ vm_case.kind = "put"
    /\ vm_case.status = "ok"
    /\ vm_case.ty.kind = "Array"

\* C18: in debug and in display mode alike an array of Int, Float or Char is
\* printed by one While loop emitted once, and an array of any other element
\* type by code unrolled over the constant length.
C18_LoopForIntFloatChar ==
    PrintsArray =>
        IF vm_case.ty.elem.kind \in {"Int", "Float", "Char"} THEN Looped ELSE Unrolled

\* C18 as the code has it: display prints arrays of Int, Float and Char by one
\* While loop, debug prints arrays of Int and Float by one While loop; debug
\* unrolls an array of Char like an array of any other element type.
C18_LoopForIntFloatAndDisplayedChar ==
    PrintsArray =>
        IF \/ vm_case.ty.elem.kind \in {"Int", "Float"}
           \/ vm_case.ty.elem.kind = "Char" /\ vm_case.mode = "Display"
        THEN Looped
        ELSE Unrolled

\* debug has emitted the code of a Char[3] unrolled, one Put per cell
C18_Witness ==
    /\ PrintsArray
    /\ vm_case.mode = "Debug"
    /\ vm_case.ty = TArray(TChar, 3)
    /\ CountOps(vm_prog, "While") = 0
    /\ \A k \in 0..2 : OpPut(DerefOffset(SP, k - 2), "char") \in
                          {vm_prog[i] : i \in DOMAIN vm_prog}

----------------------------------------------------------------------------
(* Error::annotate *)

MaxAnnotate == 3

\* Errors that are not Annotated
BaseErrors == {[kind |-> "SymbolNotDefined"], [kind |-> "UnsizedType"]}

\* Annotations: the source locations an annotation covers
Annotations == {{1}, {2}, {3}, {2, 3}}

\* result |= previous_annotation: the union of two annotations
AnnotationOr(a, b) == a \cup b

Annotated(e, annotation) == [kind |-> "Annotated", inner |-> e, ann |-> annotation]

\* Lines 137-148 of error.rs: Error::annotate
\* A variant of annotate that keeps only the new annotation on the wrapper
RECURSIVE ErrorAnnotateKeepNew(_, _)
ErrorAnnotateKeepNew(e, annotation) ==
    IF e.kind = "Annotated"
    THEN Annotated(ErrorAnnotateKeepNew(e.inner, annotation), annotation)
    ELSE Annotated(e, annotation)

RECURSIVE ErrorAnnotate(_, _)
ErrorAnnotate(e, annotation) ==
    IF e.kind = "Annotated"
    THEN Annotated(ErrorAnnotate(e.inner, annotation),
                   AnnotationOr(annotation, e.ann))
    ELSE Annotated(e, annotation)

InitAnnotate ==
    /\ proc \in {p \in PolyProcs : p.name = "id"}
    /\ lambda_count = 0
    /\ IdleMono
    /\ IdleTypeCheck
    /\ IdleLambda
    /\ IdleCompile
    /\ IdleVm
    /\ IdleDevice
    /\ IdlePoly
    /\ err \in BaseErrors
    /\ err_anns = <<>>
    /\ err_orig = err

\* err = err.annotate(annotation)
Annotate(annotation) ==
    /\ Len(err_anns) < MaxAnnotate
    /\ err' = ErrorAnnotate(err, annotation)
    /\ err_anns' = Append(err_anns, annotation)
    /\ UNCHANGED err_orig
    /\ UNCHANGED <<monoVars, tcVars, lamVars, compVars, vmVars, devVars, polyVars>>

NextAnnotate == \E annotation \in Annotations : Annotate(annotation)

SpecAnnotate == InitAnnotate /\ [][NextAnnotate]_vars

\* The number of Annotated wrappers around the error that is not Annotated
RECURSIVE NestingDepth(_)
NestingDepth(e) == IF e.kind = "Annotated" THEN 1 + NestingDepth(e.inner) ELSE 0

\* C20: annotating an error that is already Annotated merges the annotations
\* and does not nest them: after n >= 1 calls of annotate on an error that is
\* not Annotated the result is one Annotated wrapper directly around the
\* original error, whatever n is.
C20_AnnotateDoesNotNest ==
    Len(err_anns) >= 1 =>
        /\ err.kind = "Annotated"
        /\ err.inner \in BaseErrors
        /\ NestingDepth(err) = 1

\* The error that is not Annotated under every wrapper
RECURSIVE Innermost(_)
Innermost(e) == IF e.kind = "Annotated" THEN Innermost(e.inner) ELSE e

\* The union of the annotations of a history, a set, hence without order
UnionOf(anns) == UNION {anns[i] : i \in DOMAIN anns}

\* C21: after the calls of annotate with a1..an (n >= 1) on an error, the
\* annotation of the outermost Annotated wrapper is the union of a1..an,
\* whatever the order of the calls, and the original error under the
\* wrappers is the one the calls started from.
C21_OuterAnnotationIsUnion ==
    Len(err_anns) >= 1 =>
        /\ err.kind = "Annotated"
        /\ err.ann = UnionOf(err_anns)
        /\ Innermost(err) = err_orig

C21_Witness ==
    /\ Len(err_anns) = 3
    /\ err_anns[1] = {2, 3} /\ err_anns[2] = {1} /\ err_anns[3] = {2}
    /\ err.ann = {1, 2, 3}
    /\ Innermost(err) = err_orig

----------------------------------------------------------------------------
(* Get *)

\* The stdin mode of a type get reads
StdinMode(t) ==
    CASE t = TChar -> "StdinChar" [] t = TInt -> "StdinInt" [] t = TFloat -> "StdinFloat"

GetReadable == {TPointer(TRUE, t) : t \in {TChar, TInt, TFloat}}

\* C22: for an operand that is a mutable pointer to Char, Int or Float
\* Get::compile_types appends exactly one Get op and then Pop(1); the Get reads
\* in the stdin mode of the pointed type and writes the cell the pointer on
\* top of the stack addresses, no other cell, and the pointer is popped. For
\* every other operand type it returns UnsupportedOperation and the sink holds
\* no op.
C22_GetCompileTypes ==
    (vm_case.kind = "get" /\ vm_case.status # "new") =>
        IF vm_case.ty \in GetReadable
        THEN /\ vm_case.status = "ok"
             /\ Len(vm_prog) = 2
             /\ vm_prog[1].op = "Get"
             /\ vm_prog[1].mode = StdinMode(vm_case.ty.inner)
             /\ vm_prog[2] = OpPop(1)
             /\ Halted =>
                   LET pointer == vm_case.tape0[vm_case.sp0 + 1]
                   IN  /\ Len(vm_out) = 1
                       /\ vm_out[1].mode = StdinMode(vm_case.ty.inner)
                       /\ vm_tape = [vm_case.tape0 EXCEPT ![pointer] = vm_out[1].val]
                       /\ vm_reg["SP"] = vm_case.sp0
        ELSE /\ vm_case.status = "UnsupportedOperation"
             /\ vm_prog = <<>>
             /\ vm_out = <<>>
             /\ vm_tape = vm_case.tape0

C22_Witness ==
    /\ vm_case.kind = "get"
    /\ vm_case.ty = TPointer(TRUE, TChar)
    /\ Halted
    /\ vm_case.tape0[vm_case.sp0 + 1] = 2
    /\ vm_out = <<[val |-> 66, mode |-> "StdinChar"]>>
    /\ vm_tape[2] = 66 /\ vm_case.tape0[2] = 65

----------------------------------------------------------------------------
(* TestingDevice and StandardDevice: the FFI channel and ffi_call *)

MaxDeviceCalls == 4

\* FFIBinding::new
FFIBindingNew(name, input_cells, output_cells) ==
    [name |-> name, input_cells |-> input_cells, output_cells |-> output_cells]

\* The bindings the interpreter asks for
Bindings ==
    {FFIBindingNew(name, i, o) : name \in {"add", "square_root", "sub"},
                                 i \in {1, 2}, o \in {1, 2}}

\* The values poked
PokeValues == {1, 4}

\* The square root of a cell, on the naturals
ISqrt(val) == CHOOSE r \in 0..val : r * r <= val /\ (r + 1) * (r + 1) > val

Returned(channel) == [panic |-> FALSE, channel |-> channel]
Panicked(channel) == [panic |-> TRUE, channel |-> channel]

\* The two functions StandardDevice::default registers, applied to the
\* channel; unwrap of pop_front on an empty channel panics
ForeignCall(f, channel) ==
    IF f = "square_root"
    THEN IF channel = <<>> THEN Panicked(channel)
         ELSE Returned(Append(Tail(channel), ISqrt(Head(channel))))
    ELSE IF channel = <<>> THEN Panicked(channel)
         ELSE IF Tail(channel) = <<>> THEN Panicked(Tail(channel))
         ELSE Returned(Append(Tail(Tail(channel)),
                              Head(channel) + Head(Tail(channel))))

\* HashMap::new()
EmptyFfi == [b \in {} |-> "none"]
\* The ffi map of StandardDevice::default()
DefaultFfi ==
    [b \in {FFIBindingNew("square_root", 1, 1), FFIBindingNew("add", 2, 1)} |->
        b.name]

\* TestingDevice::new(sample_input), StandardDevice::default()
Devices ==
    {[kind |-> "TestingDevice", ffi |-> EmptyFfi, ffi_channel |-> <<>>,
      input |-> input, output |-> <<>>] : input \in {<<>>, <<65>>}}
    \cup {[kind |-> "StandardDevice", ffi |-> DefaultFfi, ffi_channel |-> <<>>,
           input |-> <<>>, output |-> <<>>]}

DevOk(val) == [status |-> "Ok", val |-> val]
DevErr(msg) == [status |-> "Err", val |-> msg]
DevPanic == [status |-> "panic", val |-> "unwrap on None"]

\* A variant of peek that takes the value poked last
DevicePeekBack(d) ==
    IF d.ffi_channel # <<>>
    THEN [result |-> DevOk(d.ffi_channel[Len(d.ffi_channel)]),
          dev |-> [d EXCEPT !.ffi_channel = SubSeq(@, 1, Len(@) - 1)]]
    ELSE [result |-> DevErr("ffi channel is empty"), dev |-> d]

\* Device::peek: lines 230-237 and 400-407 of mod.rs
DevicePeek(d) ==
    IF d.ffi_channel # <<>>
    THEN [result |-> DevOk(Head(d.ffi_channel)),
          dev |-> [d EXCEPT !.ffi_channel = Tail(@)]]
    ELSE [result |-> DevErr("ffi channel is empty"), dev |-> d]

\* Device::poke: lines 239-242 and 409-412 of mod.rs
DevicePoke(d, val) ==
    [result |-> DevOk("()"), dev |-> [d EXCEPT !.ffi_channel = Append(@, val)]]

\* A variant of ffi_call that finds the function by the name of the binding
DeviceFfiCallByName(d, ffi) ==
    IF \E b \in DOMAIN d.ffi : b.name = ffi.name
    THEN LET b == CHOOSE b \in DOMAIN d.ffi : b.name = ffi.name
             r == ForeignCall(d.ffi[b], d.ffi_channel)
         IN  [result |-> IF r.panic THEN DevPanic ELSE DevOk("()"),
              dev |-> [d EXCEPT !.ffi_channel = r.channel],
              invoked |-> <<d.ffi[b]>>]
    ELSE [result |-> DevErr("ffi call not found"), dev |-> d, invoked |-> <<>>]

\* Device::ffi_call: lines 244-253 and 414-423 of mod.rs; the functions of the
\* model leave the tape alone
DeviceFfiCall(d, ffi) ==
    IF ffi \in DOMAIN d.ffi
    THEN LET r == ForeignCall(d.ffi[ffi], d.ffi_channel)
         IN  [result |-> IF r.panic THEN DevPanic ELSE DevOk("()"),
              dev |-> [d EXCEPT !.ffi_channel = r.channel],
              invoked |-> <<d.ffi[ffi]>>]
    ELSE [result |-> DevErr("ffi call not found"), dev |-> d, invoked |-> <<>>]

InitDevice ==
    /\ proc \in {p \in PolyProcs : p.name = "id"}
    /\ lambda_count = 0
    /\ IdleMono
    /\ IdleTypeCheck
    /\ IdleLambda
    /\ IdleCompile
    /\ IdleVm
    /\ IdleErr
    /\ IdlePoly
    /\ dev \in Devices
    /\ dev_tape = <<7, 8>>
    /\ dev_last = [op |-> "new", arg |-> "none", result |-> DevOk("()"),
                   dev |-> dev, tape |-> dev_tape, invoked |-> <<>>, ncalls |-> 0]
    /\ dev_poked = <<>>
    /\ dev_peeked = <<>>
    /\ dev_invoked = <<>>

\* The thread that owns the device can call it: it has not panicked
CanCallDevice ==
    /\ dev_last.op # "none"
    /\ dev_last.result.status # "panic"
    /\ dev_last.ncalls < MaxDeviceCalls

Called(op, arg, res) ==
    [op |-> op, arg |-> arg, result |-> res, dev |-> dev, tape |-> dev_tape,
     invoked |-> dev_invoked, ncalls |-> dev_last.ncalls + 1]

Poke(val) ==
    /\ CanCallDevice
    /\ LET r == DevicePoke(dev, val)
       IN  /\ dev' = r.dev
           /\ dev_last' = Called("poke", val, r.result)
    /\ dev_poked' = Append(dev_poked, val)
    /\ UNCHANGED <<dev_tape, dev_peeked, dev_invoked>>
    /\ UNCHANGED <<monoVars, tcVars, lamVars, compVars, vmVars, errVars, polyVars>>

Peek ==
    /\ CanCallDevice
    /\ LET r == DevicePeek(dev)
       IN  /\ dev' = r.dev
           /\ dev_last' = Called("peek", "none", r.result)
           /\ dev_peeked' = IF r.result.status = "Ok"
                              THEN Append(dev_peeked, r.result.val) ELSE dev_peeked
    /\ UNCHANGED <<dev_tape, dev_poked, dev_invoked>>
    /\ UNCHANGED <<monoVars, tcVars, lamVars, compVars, vmVars, errVars, polyVars>>

FfiCall(ffi) ==
    /\ CanCallDevice
    /\ LET r == DeviceFfiCall(dev, ffi)
       IN  /\ dev' = r.dev
           /\ dev_last' = Called("ffi_call", ffi, r.result)
           /\ dev_invoked' = dev_invoked \o r.invoked
    /\ UNCHANGED <<dev_tape, dev_poked, dev_peeked>>
    /\ UNCHANGED <<monoVars, tcVars, lamVars, compVars, vmVars, errVars, polyVars>>

NextDevice ==
    \/ \E val \in PokeValues : Poke(val)
    \/ Peek
    \/ \E ffi \in Bindings : FfiCall(ffi)

SpecDevice == InitDevice /\ [][NextDevice]_vars

\* C23: on TestingDevice and StandardDevice the FFI channel is a first-in
\* first-out queue under poke and peek: as long as no foreign function has
\* run, the values poked are the values peeked followed by the channel. peek
\* returns the oldest value and removes it, poke returns Ok and appends, and
\* peek on an empty channel returns an error and leaves the channel empty and
\* the rest of the device as it was.
C23_ChannelIsFifo ==
    /\ dev_invoked = <<>> /\ dev_last.op # "none" =>
           dev_poked = dev_peeked \o dev.ffi_channel
    /\ dev_last.op = "poke" =>
           /\ dev_last.result.status = "Ok"
           /\ dev = [dev_last.dev EXCEPT !.ffi_channel = Append(@, dev_last.arg)]
    /\ dev_last.op = "peek" /\ dev_last.dev.ffi_channel # <<>> =>
           /\ dev_last.result = DevOk(Head(dev_last.dev.ffi_channel))
           /\ dev = [dev_last.dev EXCEPT !.ffi_channel = Tail(@)]
    /\ dev_last.op = "peek" /\ dev_last.dev.ffi_channel = <<>> =>
           /\ dev_last.result.status = "Err"
           /\ dev.ffi_channel = <<>>
           /\ dev = dev_last.dev
           /\ dev_tape = dev_last.tape

C23_Witness ==
    /\ dev_poked = <<4, 1>>
    /\ dev_peeked = <<4>>
    /\ dev.ffi_channel = <<1>>
    /\ dev_last.op = "peek"

\* The bindings of the registry equal to a binding in name, input_cells and
\* output_cells
Registered(d, ffi) ==
    {b \in DOMAIN d.ffi : /\ b.name = ffi.name
                          /\ b.input_cells = ffi.input_cells
                          /\ b.output_cells = ffi.output_cells}

----------------------------------------------------------------------------
(* PolyProcedure: derive(Serialize, Deserialize) and GetType::substitute *)

MaxSubstitutes == 2

\* The struct PolyProcedure: the five fields of a procedure, the cache and
\* the flag
WithCache(p, m, flag) ==
    [name |-> p.name, ty_params |-> p.ty_params, args |-> p.args, ret |-> p.ret,
     body |-> p.body, monomorphs |-> m, has_type_checked |-> flag]

\* Procedures whose types name symbols that are not their type parameters
SymbolProcs ==
    { PolyProcedureNew("sym", <<TyParam("T", "A")>>,
                       <<Arg("x", "A"), Arg("y", "T")>>, "A",
                       Body("SelfCall", <<"A", "T">>)),
      PolyProcedureNew("und", <<TyParam("T", NoType), TyParam("A", "U")>>,
                       <<Arg("x", "U")>>, "T", Body("SelfCall", <<"U">>)) }

\* The caches a procedure has: empty, or holding the monomorph for Int
Caches(p) ==
    {<<>>,
     MangledName(p.name, <<"Int">>, p.args, p.ret)
        :> ProcedureNew(MangledName(p.name, <<"Int">>, p.args, p.ret), p.args,
                        p.ret, p.body, 1)}

Polys ==
    UNION {{WithCache(p, m, flag) : m \in Caches(p), flag \in BOOLEAN} :
           p \in PolyProcs \cup SymbolProcs}

\* A variant of the derived Deserialize that restores the flag as set
PolyDeserializeChecked(fields) ==
    LET Get(key) == fields[CHOOSE i \in DOMAIN fields : fields[i][1] = key][2]
    IN  [name |-> Get("name"), ty_params |-> Get("ty_params"),
         args |-> Get("args"), ret |-> Get("ret"), body |-> Get("body"),
         monomorphs |-> <<>>, has_type_checked |-> TRUE]

\* Lines 21-37, derive(Serialize): the fields in the order of the struct, each
\* under its name, without the two fields marked serde(skip)
PolySerialize(p) ==
    << <<"name", p.name>>, <<"ty_params", p.ty_params>>, <<"args", p.args>>,
       <<"ret", p.ret>>, <<"body", p.body>> >>

\* Lines 21-37, derive(Deserialize): each field read under its name, the
\* fields marked serde(skip) made by Default: an empty map, false
PolyDeserialize(fields) ==
    LET Get(key) == fields[CHOOSE i \in DOMAIN fields : fields[i][1] = key][2]
    IN  [name |-> Get("name"), ty_params |-> Get("ty_params"),
         args |-> Get("args"), ret |-> Get("ret"), body |-> Get("body"),
         monomorphs |-> <<>>, has_type_checked |-> FALSE]

\* Type::substitute(name, ty) on a type of the model
TypeSubstitute(t, name, ty) == SubstType(t, <<name>>, <<ty>>)

\* A variant of substitute without the test for a type parameter of that name
PolySubstituteAlways(p, name, ty) ==
    [p EXCEPT
       !.ty_params = [i \in 1..Len(@) |->
                        IF @[i].bound = NoType THEN @[i]
                        ELSE TyParam(@[i].name, TypeSubstitute(@[i].bound, name, ty))],
       !.args = [i \in 1..Len(@) |->
                   [@[i] EXCEPT !.ty = TypeSubstitute(@, name, ty)]],
       !.ret = TypeSubstitute(@, name, ty),
       !.body = Body(@.kind, [i \in 1..Len(@.targs) |->
                                TypeSubstitute(@.targs[i], name, ty)])]

\* Lines 230-244: PolyProcedure::substitute
PolySubstitute(p, name, ty) ==
    IF \E i \in 1..Len(TypeParamNames(p)) : TypeParamNames(p)[i] = name
    THEN p
    ELSE [p EXCEPT
            !.ty_params = [i \in 1..Len(@) |->
                             IF @[i].bound = NoType THEN @[i]
                             ELSE TyParam(@[i].name,
                                          TypeSubstitute(@[i].bound, name, ty))],
            !.args = [i \in 1..Len(@) |->
                        [@[i] EXCEPT !.ty = TypeSubstitute(@, name, ty)]],
            !.ret = TypeSubstitute(@, name, ty),
            !.body = Body(@.kind, [i \in 1..Len(@.targs) |->
                                     TypeSubstitute(@.targs[i], name, ty)])]

InitPoly ==
    /\ proc \in {p \in PolyProcs : p.name = "id"}
    /\ lambda_count = 0
    /\ IdleMono
    /\ IdleTypeCheck
    /\ IdleLambda
    /\ IdleCompile
    /\ IdleVm
    /\ IdleErr
    /\ IdleDevice
    /\ poly \in Polys
    /\ poly_saved = <<>>
    /\ poly_loaded = NoPoly
    /\ poly_last = [op |-> "new", name |-> "none", ty |-> NoType, before |-> poly,
                    nsubst |-> 0]
    /\ poly_of = NoPoly

\* Serializing takes &self; one procedure is serialized
Serialize ==
    /\ poly # NoPoly
    /\ poly_saved = <<>>
    /\ poly_saved' = PolySerialize(poly)
    /\ poly_of' = poly
    /\ poly_last' = [poly_last EXCEPT !.op = "serialize", !.before = poly]
    /\ UNCHANGED <<poly, poly_loaded>>
    /\ UNCHANGED <<monoVars, tcVars, lamVars, compVars, vmVars, errVars, devVars>>

Deserialize ==
    /\ poly_saved # <<>>
    /\ poly_loaded' = PolyDeserialize(poly_saved)
    /\ poly_last' = [poly_last EXCEPT !.op = "deserialize", !.before = poly]
    /\ UNCHANGED <<poly, poly_saved, poly_of>>
    /\ UNCHANGED <<monoVars, tcVars, lamVars, compVars, vmVars, errVars, devVars>>

Substitute(name, ty) ==
    /\ poly # NoPoly
    /\ poly_last.nsubst < MaxSubstitutes
    /\ poly' = PolySubstitute(poly, name, ty)
    /\ poly_last' = [op |-> "substitute", name |-> name, ty |-> ty,
                     before |-> poly, nsubst |-> poly_last.nsubst + 1]
    /\ UNCHANGED <<poly_saved, poly_loaded, poly_of>>
    /\ UNCHANGED <<monoVars, tcVars, lamVars, compVars, vmVars, errVars, devVars>>

NextPoly ==
    \/ Serialize
    \/ Deserialize
    \/ \E name \in {"T", "A", "U"}, ty \in {"Int", "Char", "U"} : Substitute(name, ty)

SpecPoly == InitPoly /\ [][NextPoly]_vars

ArgNames(p) == [i \in 1..Len(p.args) |-> <<p.args[i].name, p.args[i].mut>>]
ArgTypes(p) == [i \in 1..Len(p.args) |-> p.args[i].ty]
Bounds(p) == [i \in 1..Len(p.ty_params) |-> p.ty_params[i].bound]

\* The name where the type is the symbol name, the type itself elsewhere
Replaced(t, name, ty) == IF t = name THEN ty ELSE t

\* C26: substitute(name, ty) leaves the whole procedure as it was when name
\* is the name of one of its type parameters; otherwise every bound of a type
\* parameter, every argument type, the return type and the types of the body
\* have ty where they had name. In both cases the name of the procedure, the
\* names of its type parameters, the names and mutabilities of its arguments,
\* the monomorph cache and the type-check flag are as they were.
C26_SubstituteFrame ==
    poly_last.op = "substitute" =>
        LET before == poly_last.before
            name == poly_last.name
            ty == poly_last.ty
            own == {TypeParamNames(before)[i] : i \in 1..Len(before.ty_params)}
        IN  /\ name \in own => poly = before
            /\ name \notin own =>
                 /\ Bounds(poly) = [i \in 1..Len(before.ty_params) |->
                        IF before.ty_params[i].bound = NoType THEN NoType
                        ELSE Replaced(before.ty_params[i].bound, name, ty)]
                 /\ ArgTypes(poly) = [i \in 1..Len(before.args) |->
                        Replaced(before.args[i].ty, name, ty)]
                 /\ poly.ret = Replaced(before.ret, name, ty)
                 /\ poly.body.kind = before.body.kind
                 /\ poly.body.targs = [i \in 1..Len(before.body.targs) |->
                        Replaced(before.body.targs[i], name, ty)]
            /\ poly.name = before.name
            /\ TypeParamNames(poly) = TypeParamNames(before)
            /\ ArgNames(poly) = ArgNames(before)
            /\ poly.monomorphs = before.monomorphs
            /\ poly.has_type_checked = before.has_type_checked

C26_Witness ==
    /\ poly_last.op = "substitute"
    /\ poly_last.name = "A" /\ poly_last.ty = "Char"
    /\ poly_last.before.name = "sym"
    /\ poly_last.before.monomorphs # <<>>
    /\ poly.ret = "Char"
    /\ poly.ty_params[1].bound = "Char"
    /\ poly.body.targs = <<"Char", "T">>
    /\ poly # poly_last.before

----------------------------------------------------------------------------
(* The loop over an array of Int or of Float *)

PrintsNumberArray ==
    /\ PrintsArray
    /\ vm_case.ty.elem.kind \in {"Int", "Float"}

\* The elements put so far: the values put in the mode of a number
ElementsPut == SelectSeq(vm_out, LAMBDA o : o.mode \in {"int", "float"})

\* C27: for an array of Int or of Float of length n >= 0 the loop ends, after
\* exactly n iterations: the machine halts with the counter B at zero and the
\* element pointer A n cells past the first element, having put '[', the n
\* elements in the order of their index with ', ' between two of them and
\* nowhere else, and ']'. At no moment has it put more than the elements of
\* the array, so that for n = 0 it prints '[]' and puts no cell.
C27_NumberArrayLoop ==
    /\ [](PrintsNumberArray =>
            /\ Len(ElementsPut) <= vm_case.ty.len
            /\ \A i \in 1..Len(ElementsPut) : ElementsPut[i].val = Operand[i]
            /\ Halted =>
                 /\ vm_out = Render(vm_case.ty, Operand)
                 /\ Len(ElementsPut) = vm_case.ty.len
                 /\ vm_reg["B"] = 0
                 /\ vm_reg["A"] = vm_case.sp0 + 1 + vm_case.ty.len)
    /\ (PrintsNumberArray ~> Halted)

C27_Witness ==
    /\ PrintsNumberArray
    /\ Halted
    /\ vm_case.ty = TArray(TInt, 3)
    /\ Operand = <<65, 0, 66>>
    /\ Len(vm_out) = 9
    /\ vm_out[2] = [val |-> 65, mode |-> "int"]
    /\ vm_out[5] = [val |-> 0, mode |-> "int"]
    /\ vm_out[8] = [val |-> 66, mode |-> "int"]

----------------------------------------------------------------------------
(* The error returns of monomorphize *)

\* The call of th returns an error in this step
ReturningError(th) ==
    pc[th] # "done" /\ pc'[th] = "done" /\ result'[th].status = "err"

\* The call of th has returned an error
ReturnedError(th) == pc[th] = "done" /\ result[th].status = "err"

\* C28: when monomorphize returns an error the cache holds the entries it
\* held before the return, and the call holds neither guard of the lock and
\* has not poisoned it, so that a later call can take the lock; no call with
\* the type arguments of the failed one has been returned a procedure, and
\* the cache holds no entry under the name the failed call computed.
C28_ErrorLeavesCacheAndLock ==
    /\ [][\A th \in Threads :
            ReturningError(th) =>
                /\ monomorphs' = monomorphs
                /\ poisoned' = poisoned
                /\ rw_writer' # th
                /\ th \notin rw_readers']_vars
    /\ [](\A th \in Threads :
            ReturnedError(th) =>
                /\ rw_writer # th
                /\ th \notin rw_readers
                /\ \A r \in returned : r.ty_args # call[th].ty_args
                /\ call[th].key # <<>> => call[th].key \notin DOMAIN monomorphs)

\* a call failed in the type check of its monomorph, under the write guard,
\* and another call has taken the write guard since
C28_Witness ==
    \E t1, t2 \in Threads :
        /\ t1 # t2
        /\ ReturnedError(t1)
        /\ result[t1].err = "SymbolNotDefined"
        /\ rw_writer = t2
        /\ pc[t2] = "typecheck"
        /\ monomorphs = <<>>

----------------------------------------------------------------------------
(* What type_check returns *)

TypeErrors == {"MismatchedTypes", "SymbolNotDefined"}

\* C29: PolyProcedure::type_check returns Ok only for a procedure that
\* passes the check: whatever the sequence or interleaving of the calls on
\* one procedure and one environment, no call has returned Ok(()) while
\* another has returned a type error.
C29_OkOnlyIfItPasses ==
    \A t1, t2 \in Threads :
        ~(tc_result[t1] = "Ok" /\ tc_result[t2] \in TypeErrors)

\* C30: Procedure::type_check returns Ok only when the type of the body, in
\* the scope that defines the arguments, equals the declared return type: a
\* monomorph on its way into the cache, whose type_check has returned Ok, has
\* a body of its return type.
C30_MismatchedBodyIsAnError ==
    \A th \in Threads :
        pc[th] = "insert" =>
            /\ PolyBodyType(call[th].monomorph).ok
            /\ TypeEquals(PolyBodyType(call[th].monomorph).ty,
                          call[th].monomorph.ret)

====
